---- MODULE Spec2Model ----
(***************************************************************************)
(* Liteflow (src/src/index.ts): a workflow tracker over a relational       *)
(* store reached through knex.  The model covers the write path: the      *)
(* pendingSteps buffer, the one-shot flush timer, the fire-and-forget      *)
(* workflow writes and the reads that observe them.                        *)
(*                                                                         *)
(* Execution model.  JavaScript runs one synchronous block at a time.  A   *)
(* query whose `.then` is called in the block (startWorkflow,              *)
(* completeWorkflow, failWorkflow) takes its place on the connection at    *)
(* once; a query that is `await`ed takes it one microtask later, so it     *)
(* waits in `microtasks` until the block ends.  The store is the sqlite3   *)
(* client the constructor builds for a path (one connection): requests run *)
(* one at a time in the order they reached the connection (`dbQueue`).     *)
(* Timer callbacks and store completions are macrotasks: they run only     *)
(* when no microtask is left.                                              *)
(***************************************************************************)
EXTENDS Integers, Sequences, FiniteSets, TLC

\* ---------------------------------------------------------------- bounds
MaxWorkflows == 1      \* startWorkflow calls
MaxSteps == 3          \* addStep calls
MaxTime == 2           \* readings of the clock: 1..MaxTime
MaxCalls == 5          \* calls the application makes on the Liteflow object
MaxFaults == 1         \* store errors injected
MaxListed == 2         \* startWorkflow calls where workflows stand side by side
MaxPaged == 3          \* startWorkflow calls where workflows are listed in pages
MaxHandlers == 2       \* handlers registered per event class
MaxBatch == 2          \* steps one addSteps call has persisted before statistics are taken

\* ------------------------------------------------------------ value sets
StepNames == {"a", "b"}
NullName == "<null>"               \* a step name of null or undefined
NonExistent == 0                   \* a workflow id that startWorkflow never returned
StepLists == {<<"a", "b">>, <<"b", NullName>>}     \* arguments of addSteps
Pairs == {<<"k", "1">>, <<"k", "2">>}
SoleIdentifiers == {<<p>> : p \in Pairs}             \* lists of one pair
NewIdentifiers == {<<"k", "1">>, <<"k", "">>, <<>>}   \* the last one: null
AttachedPairs == {<<"k", "2">>, <<"k", "3">>}     \* pairs no workflow starts with
IdentifierLists == {<<<<"k", "1">>>>, <<<<"k", "1">>, <<"k", "2">>>>}
None == <<>>                       \* null / undefined / an unset column
PageSizes == {1, 2}                \* the pageSize asked of getWorkflows
HandlerNames == {"f", "g"}         \* the functions given to onStep, onStart, ...
Limits == {-1, 0, 1, 2}            \* the limit asked of getMostFrequentSteps
Some(x) == <<x>>

VARIABLES
    now,               \* new Date(): the wall clock, never decreasing
    workflowCount,     \* uuidv4() draws used for workflows
    stepCount,         \* uuidv4() draws used for steps
    workflow,          \* table workflow, rows in rowid order
    workflow_step,     \* table workflow_step, rows in rowid order
    pendingSteps,      \* Liteflow.pendingSteps
    batchInsertTimer,  \* Liteflow.batchInsertTimer: None, or Some(time armed)
    timeouts,          \* the timeouts set and neither fired nor cleared, oldest first
    microtasks,        \* awaited queries not yet handed to the connection
    dbQueue,           \* requests on the connection, oldest first
    dbOpen,            \* FALSE once db.destroy() has run
    handles,           \* the WorkflowInstances startWorkflow has returned
    accepted,          \* history: the records addStep has pushed, in call order
    submitted,         \* history: per step id, the batch inserts that carried it
    lost,              \* history: ids of the steps of failed batch inserts
    faults,            \* history: store errors so far
    flushedUpTo,       \* history: Len(accepted) at the call of the last resolved flush
    called,            \* history: per workflow id, the status calls made on it
    destroyCalled,     \* history: destroy() has been called
    finalBatch,        \* history: the batch destroy() handed to its flush
    calls,             \* history: calls made by the application
    stepHandlers,      \* Liteflow.stepHandlers
    startHandlers,     \* Liteflow.startHandlers
    completeHandlers,  \* Liteflow.completeHandlers
    failHandlers,      \* Liteflow.failHandlers
    invoked,           \* history: the handler invocations made, in order
    lastResult         \* the promise resolved by the step just taken, and its value

vars == <<now, workflowCount, stepCount, workflow, workflow_step, pendingSteps,
          batchInsertTimer, microtasks, dbQueue, dbOpen, handles, accepted,
          submitted, lost, faults, flushedUpTo, called, destroyCalled,
          finalBatch, calls, stepHandlers, startHandlers, completeHandlers,
          failHandlers, invoked, timeouts, lastResult>>

handlerLists == <<stepHandlers, startHandlers, completeHandlers, failHandlers>>

\* ----------------------------------------------------------- sequences
Range(s) == {s[i] : i \in DOMAIN s}
Ids(s) == {s[i].id : i \in DOMAIN s}
IdSeq(s) == [i \in DOMAIN s |-> s[i].id]

RECURSIVE InsertSorted(_, _)
\* Places r after every row of the sorted s whose created_at is <= its own.
InsertSorted(s, r) ==
    IF s = <<>> THEN <<r>>
    ELSE IF s[Len(s)].created_at <= r.created_at THEN Append(s, r)
    ELSE Append(InsertSorted(SubSeq(s, 1, Len(s) - 1), r), s[Len(s)])

\* Mutant of OrderByCreatedAt: no ORDER BY, the rows come newest first.
NewestFirst(s) == [i \in 1..Len(s) |-> s[Len(s) + 1 - i]]

\* Mutant of OrderByCreatedAt: no ORDER BY, the rows come in rowid order.
RowidOrder(s) == s

RECURSIVE OrderByCreatedAt(_)
\* ORDER BY created_at ASC over rows scanned in rowid order; sqlite's sorter
\* keeps rows of equal key in scan order.
OrderByCreatedAt(s) ==
    IF s = <<>> THEN <<>>
    ELSE InsertSorted(OrderByCreatedAt(SubSeq(s, 1, Len(s) - 1)), s[Len(s)])

\* ------------------------------------------------------------- requests
Request(op, arg, kont, snap) ==
    [op |-> op, arg |-> arg, kont |-> kont, snap |-> snap, aborted |-> ~dbOpen]

NoResult == [op |-> "none", arg |-> None, snap |-> None, value |-> None, failed |-> FALSE]
Result(op, arg, snap, value, failed) ==
    [op |-> op, arg |-> arg, snap |-> snap, value |-> value, failed |-> failed]

\* Mutant of IssueNow: `.then` is never called, so the query never runs.
NeverIssued(queue, request) == queue

\* A query whose `.then` is called where it is built: it is on the connection
\* before the block goes on.
IssueNow(queue, request) == Append(queue, request)

\* One more call by the application.
Call == calls < MaxCalls /\ calls' = calls + 1

\* ----------------------------------------------------------------- Init
Init ==
    /\ now = 1
    /\ workflowCount = 0
    /\ stepCount = 0
    /\ workflow = <<>>
    /\ workflow_step = <<>>
    /\ pendingSteps = <<>>
    /\ batchInsertTimer = None
    /\ microtasks = <<>>
    /\ dbQueue = <<>>
    /\ dbOpen = TRUE
    /\ handles = <<>>
    /\ accepted = <<>>
    /\ submitted = <<>>
    /\ lost = {}
    /\ faults = 0
    /\ flushedUpTo = 0
    /\ called = <<>>
    /\ destroyCalled = FALSE
    /\ finalBatch = <<>>
    /\ calls = 0
    /\ stepHandlers = <<>>
    /\ startHandlers = <<>>
    /\ completeHandlers = <<>>
    /\ failHandlers = <<>>
    /\ invoked = <<>>
    /\ timeouts = <<>>
    /\ lastResult = NoResult

\* ---------------------------------------------------------------- clock
\* new Date().toISOString() returns t: the time of the last reading, or a
\* later one.  The strings have one fixed layout, so they compare as the
\* instants do and a time stands for its string.
ReadClock(t) == t \in now..MaxTime /\ t <= now + 1 /\ now' = t

\* ------------------------------------- onStep / onStart / onComplete / onFail
\* What the calls leave alone: everything but the four lists.
besideHandlers ==
    <<now, workflowCount, stepCount, workflow, workflow_step, pendingSteps,
      batchInsertTimer, microtasks, dbQueue, dbOpen, handles, accepted, submitted,
      lost, faults, flushedUpTo, called, destroyCalled, finalBatch, invoked,
      timeouts>>

OnStep(handler) ==
    /\ Call
    /\ Len(stepHandlers) < MaxHandlers
    /\ stepHandlers' = Append(stepHandlers, handler)
    /\ UNCHANGED <<besideHandlers, startHandlers, completeHandlers, failHandlers>>
    /\ lastResult' = NoResult

OnStart(handler) ==
    /\ Call
    /\ Len(startHandlers) < MaxHandlers
    /\ startHandlers' = Append(startHandlers, handler)
    /\ UNCHANGED <<besideHandlers, stepHandlers, completeHandlers, failHandlers>>
    /\ lastResult' = NoResult

OnComplete(handler) ==
    /\ Call
    /\ Len(completeHandlers) < MaxHandlers
    /\ completeHandlers' = Append(completeHandlers, handler)
    /\ UNCHANGED <<besideHandlers, stepHandlers, startHandlers, failHandlers>>
    /\ lastResult' = NoResult

OnFail(handler) ==
    /\ Call
    /\ Len(failHandlers) < MaxHandlers
    /\ failHandlers' = Append(failHandlers, handler)
    /\ UNCHANGED <<besideHandlers, stepHandlers, startHandlers, completeHandlers>>
    /\ lastResult' = NoResult

\* What a handler is given, and `of`: the id of the step record the event is
\* about (None for an event about a workflow); `at` is startedAt, createdAt,
\* or completedAt / failedAt as the update carries it.
Event(class, workflowId, of, at) ==
    [class |-> class, workflowId |-> workflowId, of |-> of, at |-> at]

StepEvent(rec) == Event("step", rec.workflow_id, Some(rec.id), rec.created_at)

\* Mutant of Invoke: the handlers are called from the newest to the oldest.
InvokeNewestFirst(handlers, event) ==
    [i \in DOMAIN handlers |-> [handler |-> handlers[Len(handlers) + 1 - i], event |-> event]]

\* for (const handler of handlers) handler(event); no handler throws, and
\* what a handler returns is not awaited.
Invoke(handlers, event) ==
    [i \in DOMAIN handlers |-> [handler |-> handlers[i], event |-> event]]

RECURSIVE InvokeForEach(_, _)
\* for (const stepData of stepsToInsert) for (const handler of handlers) ...
InvokeForEach(handlers, records) ==
    IF records = <<>> THEN <<>>
    ELSE Invoke(handlers, StepEvent(Head(records))) \o InvokeForEach(handlers, Tail(records))

\* ------------------------------------------------------- startWorkflow
\* Mutant of NewWorkflowRow: the row is created with ended_at set.
BornEnded(id, name, identifiers, startedAt) ==
    [id |-> id, name |-> name, identifiers |-> identifiers, status |-> "pending",
     started_at |-> startedAt, ended_at |-> Some(startedAt)]

NewWorkflowRow(id, name, identifiers, startedAt) ==
    [id |-> id, name |-> name, identifiers |-> identifiers, status |-> "pending",
     started_at |-> startedAt, ended_at |-> None]

\* Draws the id, reads the clock, issues the insert (its `.then` is called in
\* the same block) and returns the handle without waiting for the store.
StartWorkflowUpTo(limit, name, identifiers, t) ==
    /\ Call
    /\ ReadClock(t)
    /\ workflowCount < limit
    /\ LET id == workflowCount + 1
           row == NewWorkflowRow(id, name, identifiers, t)
       IN /\ workflowCount' = id
          /\ dbQueue' = IssueNow(dbQueue, Request("insertWorkflow", row, "startHandlers", None))
          /\ handles' = Append(handles, [id |-> id, identifiers |-> identifiers,
                                         startedAt |-> t])
          /\ called' = Append(called, {})
    /\ UNCHANGED <<stepCount, workflow, workflow_step, pendingSteps,
                   batchInsertTimer, microtasks, dbOpen, accepted, submitted, lost,
                   faults, flushedUpTo, destroyCalled, finalBatch,
                   handlerLists, invoked, timeouts>>
    /\ lastResult' = NoResult

StartWorkflow(name, identifiers, t) ==
    StartWorkflowUpTo(MaxWorkflows, name, identifiers, t)

\* ---------------------------------------------------- scheduleBatchInsert
\* Mutant of scheduleBatchInsert: the timer is never armed.
NeverArmed(timer, t) == timer

\* Mutant of scheduleBatchInsert: every call sets a new timer.
Rearmed(timer, t) == Some(t)

\* The timer after scheduleBatchInsert(): an armed timer is left as it is.
scheduleBatchInsert(timer, t) ==
    IF timer # None THEN timer ELSE Some(t)

\* setTimeout: the timeout a call of scheduleBatchInsert has set, if it set
\* one, joins those waiting to fire.
setTimeout(waiting, timer, scheduled) ==
    IF scheduled # timer THEN Append(waiting, scheduled) ELSE waiting

\* clearTimeout(timer), for a timer that is set: the timeout does not fire.
clearTimeout(waiting, timer) ==
    IF \E k \in DOMAIN waiting : waiting[k] = timer
    THEN LET k == CHOOSE j \in DOMAIN waiting : waiting[j] = timer
         IN SubSeq(waiting, 1, k - 1) \o SubSeq(waiting, k + 1, Len(waiting))
    ELSE waiting

\* -------------------------------------------------------------- addStep
\* Pushes the record, schedules the flush and calls the step handlers;
\* nothing is awaited.
AddStep(workflowId, step, t) ==
    /\ Call
    /\ ReadClock(t)
    /\ stepCount < MaxSteps
    /\ LET rec == [id |-> stepCount + 1, workflow_id |-> workflowId, step |-> step,
                   created_at |-> t]
       IN /\ stepCount' = stepCount + 1
          /\ pendingSteps' = Append(pendingSteps, rec)
          /\ batchInsertTimer' = scheduleBatchInsert(batchInsertTimer, t)
          /\ timeouts' = setTimeout(timeouts, batchInsertTimer,
                                    scheduleBatchInsert(batchInsertTimer, t))
          /\ accepted' = Append(accepted, rec)
          /\ submitted' = Append(submitted, 0)
          /\ invoked' = invoked \o Invoke(stepHandlers, StepEvent(rec))
    /\ UNCHANGED <<workflowCount, workflow, workflow_step, microtasks, dbQueue,
                   dbOpen, handles, lost, faults, flushedUpTo, called, destroyCalled,
                   finalBatch,
                   handlerLists>>
    /\ lastResult' = NoResult

\* ------------------------------------------------------------- addSteps
\* Mutant of StepsToInsert: the last of the given steps is left out.
AllButLast(workflowId, steps, t) ==
    [i \in 1..(Len(steps) - 1) |-> [id |-> stepCount + i, workflow_id |-> workflowId,
                                    step |-> steps[i], created_at |-> t]]

\* The records addSteps builds: one id each, one created_at for all.
StepsToInsert(workflowId, steps, t) ==
    [i \in 1..Len(steps) |-> [id |-> stepCount + i, workflow_id |-> workflowId,
                              step |-> steps[i], created_at |-> t]]

\* Builds the records and awaits their insert inside wrap(): the insert is
\* handed over a microtask later; the buffer and the timer are not touched.
AddSteps(workflowId, steps, t) ==
    /\ Call
    /\ ReadClock(t)
    /\ stepCount + Len(steps) <= MaxSteps
    /\ stepCount' = stepCount + Len(steps)
    /\ submitted' = submitted \o [i \in 1..Len(steps) |-> 1]
    /\ microtasks' = Append(microtasks,
                            Request("insertSteps", StepsToInsert(workflowId, steps, t),
                                    "addSteps", None))
    /\ UNCHANGED <<workflowCount, workflow, workflow_step, pendingSteps,
                   batchInsertTimer, dbQueue, dbOpen, handles, accepted, lost, faults,
                   flushedUpTo, called, destroyCalled, finalBatch,
                   handlerLists, invoked, timeouts>>
    /\ lastResult' = NoResult

\* ---------------------------------------------------- flushBatchInserts
\* Mutant of SwappedOut: the records are stamped when they are flushed.
StampedAtFlush(pending) == [i \in DOMAIN pending |-> [pending[i] EXCEPT !.created_at = now]]

\* The batch a flush takes out of the buffer, and what it leaves behind.
SwappedOut(pending) == pending
\* Mutant of LeftBehind: the newest record stays in the buffer.
KeepsNewest(pending) ==
    IF pending = <<>> THEN <<>> ELSE <<pending[Len(pending)]>>
\* Mutant of LeftBehind: the buffer is not emptied at the swap.
NotCleared(pending) == pending
LeftBehind(pending) == <<>>

\* Mutant of FlushAwait: destroy() does not await its flush.
FlushNotAwaited(what, batch) ==
    IF what = "destroy"
    THEN (IF batch # <<>>
          THEN <<Request("insertSteps", batch, "timer", [upTo |-> Len(accepted)])>>
          ELSE <<>>) \o <<Request("dbDestroy", None, what, None)>>
    ELSE IF batch # <<>>
    THEN <<Request("insertSteps", batch, what, [upTo |-> Len(accepted)])>>
    ELSE <<>>

\* Mutant of FlushAwait: no early return, an empty batch is inserted too.
InsertsEmpty(what, batch) ==
    IF what = "destroy" /\ batch = <<>> THEN <<Request("dbDestroy", None, what, None)>>
    ELSE <<Request("insertSteps", batch, what, [upTo |-> Len(accepted)])>>

\* The await of the insert: the request, or for an empty buffer the caller's
\* continuation alone (`what` is who awaits: "flush", "timer" or "destroy").
FlushAwait(what, batch) ==
    IF batch # <<>>
    THEN <<Request("insertSteps", batch, what, [upTo |-> Len(accepted)])>>
    ELSE IF what = "destroy" THEN <<Request("dbDestroy", None, what, None)>>
    ELSE <<>>

CountBatch(batch) ==
    [i \in DOMAIN submitted |-> IF i \in Ids(batch) THEN submitted[i] + 1 ELSE submitted[i]]

Max(a, b) == IF a >= b THEN a ELSE b

\* The synchronous part of flushBatchInserts(): clear the timer, swap the
\* buffer for an empty one, hand the batch to the store.  The timer's
\* callback has set batchInsertTimer to null before: the timeout that fires
\* is the oldest one waiting and there is nothing to clear.
FlushBody(what) ==
    LET batch == SwappedOut(pendingSteps)
    IN /\ batchInsertTimer' = None
       /\ timeouts' = IF what = "timer" THEN Tail(timeouts)
                      ELSE IF batchInsertTimer = None THEN timeouts
                      ELSE clearTimeout(timeouts, batchInsertTimer)
       /\ pendingSteps' = LeftBehind(pendingSteps)
       /\ microtasks' = microtasks \o FlushAwait(what, batch)
       /\ submitted' = CountBatch(batch)
       /\ IF what = "flush" /\ batch = <<>>
          THEN /\ lastResult' = Result("flush", None, None, "resolved", FALSE)
               /\ flushedUpTo' = Max(flushedUpTo, Len(accepted))
          ELSE /\ lastResult' = NoResult
               /\ flushedUpTo' = flushedUpTo

\* A call of flushBatchInserts() by the application.
FlushBatchInserts ==
    /\ Call
    /\ FlushBody("flush")
    /\ UNCHANGED <<now, workflowCount, stepCount, workflow, workflow_step, dbQueue,
                   dbOpen, handles, accepted, lost, faults, called, destroyCalled,
                   finalBatch,
                   handlerLists, invoked>>

\* The timer armed by scheduleBatchInsert fires: it clears itself and flushes.
TimerFire ==
    /\ microtasks = <<>>
    /\ timeouts # <<>>
    /\ FlushBody("timer")
    /\ UNCHANGED <<calls, now, workflowCount, stepCount, workflow, workflow_step, dbQueue,
                   dbOpen, handles, accepted, lost, faults, called, destroyCalled,
                   finalBatch,
                   handlerLists, invoked>>

\* -------------------------------------------------------------- destroy
\* destroy(): the final flush; db.destroy() follows when its await resumes.
Destroy ==
    /\ Call
    /\ ~destroyCalled
    /\ destroyCalled' = TRUE
    /\ finalBatch' = pendingSteps
    /\ FlushBody("destroy")
    /\ UNCHANGED <<now, workflowCount, stepCount, workflow, workflow_step, dbQueue,
                   dbOpen, handles, accepted, lost, faults, called,
                   handlerLists, invoked>>

\* db.destroy(): the pool is closed; the request the connection has already
\* been handed to runs to its end, the waiting ones are aborted.
AbortWaiting(queue) ==
    [i \in DOMAIN queue |-> IF i = 1 THEN queue[i] ELSE [queue[i] EXCEPT !.aborted = TRUE]]

\* ------------------------------------- completeWorkflow / failWorkflow
HasRow(id) == \E i \in DOMAIN workflow : workflow[i].id = id

\* What the history keeps of a status call: its kind, and "early" when the
\* call was made before the workflow's insert had reached the table.
CallMarks(id, kind) == {kind} \cup (IF HasRow(id) THEN {} ELSE {"early"})

\* Mutant of StatusUpdate: the status written is not one of the three.
StatusMisspelt(id, status, endedAt) == [id |-> id, status |-> "done", ended_at |-> endedAt]

\* Mutant of StatusUpdate: ended_at is left out of the update.
StatusOnly(id, status, endedAt) == [id |-> id, status |-> status, ended_at |-> None]

\* The UPDATE completeWorkflow / failWorkflow issue: status and ended_at of
\* the rows with that id, whatever their status is.
StatusUpdate(id, status, endedAt) == [id |-> id, status |-> status, ended_at |-> endedAt]

\* Reads the clock and issues the update (its `.then` is called in the same
\* block); the promise returned resolves without waiting for the store.
SetStatus(workflowId, status, kind, t) ==
    /\ Call
    /\ ReadClock(t)
    /\ dbQueue' = IssueNow(dbQueue, Request("updateStatus",
                                            StatusUpdate(workflowId, status, Some(t)),
                                            kind, None))
    /\ called' = [called EXCEPT ![workflowId] = @ \cup CallMarks(workflowId, kind)]
    /\ UNCHANGED <<workflowCount, stepCount, workflow, workflow_step, pendingSteps,
                   batchInsertTimer, microtasks, dbOpen, handles, accepted, submitted,
                   lost, faults, flushedUpTo, destroyCalled, finalBatch,
                   handlerLists, invoked, timeouts>>
    /\ lastResult' = NoResult

CompleteWorkflow(workflowId, t) == SetStatus(workflowId, "completed", "complete", t)

FailWorkflow(workflowId, t) == SetStatus(workflowId, "failed", "fail", t)

\* The workflow's insert has been through the store and no row of it is in
\* the table.
Gone(id) ==
    /\ id \in {handles[i].id : i \in DOMAIN handles}
    /\ ~HasRow(id)
    /\ \A k \in DOMAIN dbQueue :
          dbQueue[k].op = "insertWorkflow" => dbQueue[k].arg.id # id

\* ---------------------------------------------- getWorkflowByIdentifier
\* What the caller knows when it asks: the handles that were started with
\* the pair, and the status calls made so far.
LookupSnapshot(key, value) ==
    [carriers |-> {handles[i].id : i \in {j \in DOMAIN handles :
                        <<key, value>> \in Range(handles[j].identifiers)}},
     called |-> called,
     rows |-> Ids(workflow)]

\* The select is awaited inside wrap(): it is handed over a microtask later.
GetWorkflowByIdentifier(key, value) ==
    /\ Call
    /\ microtasks' = Append(microtasks, Request("selectByIdentifier", <<key, value>>,
                                                "return", LookupSnapshot(key, value)))
    /\ UNCHANGED <<now, workflowCount, stepCount, workflow, workflow_step, pendingSteps,
                   batchInsertTimer, dbQueue, dbOpen, handles, accepted, submitted,
                   lost, faults, flushedUpTo, called, destroyCalled, finalBatch,
                   handlerLists, invoked, timeouts>>
    /\ lastResult' = NoResult

\* ----------------------------------------------------- attachIdentifier
\* The validation of the new identifier: null, or an empty key or value.
Malformed(newIdentifier) ==
    \/ newIdentifier = None
    \/ newIdentifier[1] = ""
    \/ newIdentifier[2] = ""

\* Mutant of WithIdentifier: the list written holds the new identifier alone.
OnlyIdentifier(identifiers, newIdentifier) == <<newIdentifier>>

\* currentIdentifiers.push(newIdentifier)
WithIdentifier(identifiers, newIdentifier) == Append(identifiers, newIdentifier)

\* Awaits getWorkflowByIdentifier (its select is handed over a microtask
\* later); what follows the lookup is AttachFollowup.
AttachIdentifier(existingKey, existingValue, newIdentifier) ==
    /\ Call
    /\ microtasks' = Append(microtasks,
                            Request("selectByIdentifier", <<existingKey, existingValue>>,
                                    "attach", [new |-> newIdentifier]))
    /\ UNCHANGED <<now, workflowCount, stepCount, workflow, workflow_step, pendingSteps,
                   batchInsertTimer, dbQueue, dbOpen, handles, accepted, submitted,
                   lost, faults, flushedUpTo, called, destroyCalled, finalBatch,
                   handlerLists, invoked, timeouts>>
    /\ lastResult' = NoResult

\* Mutant of AttachRejects: the list read is not searched for the identifier.
AttachUnchecked(found, newIdentifier) ==
    \/ found = None
    \/ Malformed(newIdentifier)

\* attachIdentifier after its lookup has returned `found`: no workflow, a
\* malformed or a duplicate identifier end the call; otherwise the list read
\* plus the new identifier is written back by an awaited update.
AttachRejects(found, newIdentifier) ==
    \/ found = None
    \/ Malformed(newIdentifier)
    \/ newIdentifier \in Range(found[1].identifiers)

AttachFollowup(r, found) ==
    IF AttachRejects(found, r.snap.new) THEN <<>>
    ELSE <<Request("updateIdentifiers",
                   [id |-> found[1].id,
                    identifiers |-> WithIdentifier(found[1].identifiers, r.snap.new)],
                   "attach",
                   [new |-> r.snap.new, pair |-> r.arg, read |-> found[1].identifiers])>>

\* ------------------------------------------------------------- getSteps
StepsOf(records, workflowId) == SelectSeq(records, LAMBDA r : r.workflow_id = workflowId)

\* What the caller knows when it asks: the steps it has added to the
\* workflow, and whether a flush called after the last of them has resolved.
StepsSnapshot(workflowId) ==
    [expect |-> IdSeq(StepsOf(accepted, workflowId)),
     awaited |-> flushedUpTo = Len(accepted),
     persisted |-> Ids(StepsOf(workflow_step, workflowId)),
     gone |-> Gone(workflowId)]

\* The select is awaited inside wrap(); the buffer and the timer are not read.
GetSteps(workflowId) ==
    /\ Call
    /\ microtasks' = Append(microtasks, Request("selectSteps", workflowId, "return",
                                                StepsSnapshot(workflowId)))
    /\ UNCHANGED <<now, workflowCount, stepCount, workflow, workflow_step, pendingSteps,
                   batchInsertTimer, dbQueue, dbOpen, handles, accepted, submitted,
                   lost, faults, flushedUpTo, called, destroyCalled, finalBatch,
                   handlerLists, invoked, timeouts>>
    /\ lastResult' = NoResult

\* --------------------------------------------------------- getWorkflows
DefaultPage == 1
DefaultPageSize == 10
DefaultLimit == 5

\* A destructuring default: it stands in for an option left undefined
\* (None; an option given is Some(value)).
Default(x, d) == IF x = None THEN d ELSE x[1]

\* The options after destructuring.
GetWorkflowsOptions(status, identifier, page, pageSize, orderBy, order) ==
    [status |-> status,
     identifier |-> identifier,
     page |-> Default(page, DefaultPage),
     pageSize |-> Default(pageSize, DefaultPageSize),
     orderBy |-> Default(orderBy, "started_at"),
     order |-> Default(order, "desc")]

\* getWorkflows(given): of the object given, the six options above are read
\* and nothing else.  Awaits the count query inside wrap(); the data query
\* follows it.  `given` keeps what the caller passed.
GetWorkflowsGiven(given) ==
    /\ Call
    /\ microtasks' = Append(microtasks,
                            Request("countWorkflows",
                                    GetWorkflowsOptions(given.status, given.identifier,
                                                        given.page, given.pageSize,
                                                        given.orderBy, given.order),
                                    "getWorkflows", [given |-> given]))
    /\ UNCHANGED <<now, workflowCount, stepCount, workflow, workflow_step, pendingSteps,
                   batchInsertTimer, dbQueue, dbOpen, handles, accepted, submitted,
                   lost, faults, flushedUpTo, called, destroyCalled, finalBatch,
                   handlerLists, invoked, timeouts>>
    /\ lastResult' = NoResult

\* getWorkflows after its count: the data query, ordered and cut to the page.
\* `seen` keeps the table the count was taken of.
GetWorkflowsFollowup(r, total) ==
    <<Request("selectWorkflows", r.arg, "getWorkflows",
              [total |-> total, seen |-> workflow, given |-> r.snap.given])>>

\* A call that passes the options of the method's signature.
GetWorkflows(status, identifier, page, pageSize, orderBy, order) ==
    GetWorkflowsGiven([status |-> status, identifier |-> identifier, page |-> page,
                       pageSize |-> pageSize, orderBy |-> orderBy, order |-> order,
                       step |-> None])

\* A call that passes only `step`, an option of GetWorkflowsOptions.
GetWorkflowsByStep(step) ==
    GetWorkflowsGiven([status |-> None, identifier |-> None, page |-> None,
                       pageSize |-> None, orderBy |-> None, order |-> None,
                       step |-> Some(step)])

\* ----------------------------------------- the reads over the step table
\* One awaited query inside wrap(), its rows returned as they come.
Read(op, arg, kont) ==
    /\ Call
    /\ microtasks' = Append(microtasks, Request(op, arg, kont, None))
    /\ UNCHANGED <<now, workflowCount, stepCount, workflow, workflow_step, pendingSteps,
                   batchInsertTimer, dbQueue, dbOpen, handles, accepted, submitted,
                   lost, faults, flushedUpTo, called, destroyCalled, finalBatch,
                   handlerLists, invoked, timeouts>>
    /\ lastResult' = NoResult

GetStepsByIdentifier(key, value) == Read("selectStepsByIdentifier", <<key, value>>, "return")

GetMostFrequentSteps(limit) ==
    Read("selectFrequentSteps", Default(limit, DefaultLimit), "return")

GetAverageStepDuration == Read("selectStepCounts", None, "averageDuration")

\* Awaits the counts over workflow; the counts over workflow_step follow.
GetWorkflowStats == Read("selectWorkflowStats", None, "stats")

\* `seen` keeps the table the counts were taken of.
GetWorkflowStatsFollowup(r, counts) ==
    <<Request("selectStepCounts", None, "stats", [counts |-> counts, seen |-> workflow])>>

\* ------------------------------------- deleteWorkflow / deleteAllWorkflows
\* Awaits the select of the row inside wrap(); what follows is DeleteFollowup.
DeleteWorkflow(workflowId) ==
    /\ Call
    /\ microtasks' = Append(microtasks, Request("selectWorkflow", workflowId, "delete", None))
    /\ UNCHANGED <<now, workflowCount, stepCount, workflow, workflow_step, pendingSteps,
                   batchInsertTimer, dbQueue, dbOpen, handles, accepted, submitted,
                   lost, faults, flushedUpTo, called, destroyCalled, finalBatch,
                   handlerLists, invoked, timeouts>>
    /\ lastResult' = NoResult

\* deleteWorkflow after its select: without a row the call ends (false), with
\* one the transaction is awaited.
DeleteFollowup(r, found) ==
    IF found = None THEN <<>>
    ELSE <<Request("deleteTransaction", r.arg, "delete", None)>>

\* The transaction is started inside wrap() and awaited.
DeleteAllWorkflows ==
    /\ Call
    /\ microtasks' = Append(microtasks, Request("deleteAllTransaction", None, "deleteAll", None))
    /\ UNCHANGED <<now, workflowCount, stepCount, workflow, workflow_step, pendingSteps,
                   batchInsertTimer, dbQueue, dbOpen, handles, accepted, submitted,
                   lost, faults, flushedUpTo, called, destroyCalled, finalBatch,
                   handlerLists, invoked, timeouts>>
    /\ lastResult' = NoResult

\* The statements of the two transactions: steps first, then workflows.
DeleteStatements(id) ==
    <<[from |-> "workflow_step", where |-> Some(id)],
      [from |-> "workflow", where |-> Some(id)]>>

\* Mutant of DeleteAllStatements: the workflow rows are not deleted.
DeleteStepsOnly == <<[from |-> "workflow_step", where |-> None]>>

DeleteAllStatements ==
    <<[from |-> "workflow_step", where |-> None],
      [from |-> "workflow", where |-> None]>>

\* ----------------------------------------------- the end of a sync block
RECURSIVE Drain(_, _, _)
\* Runs the microtasks in order: a query joins the connection's queue (it
\* fails at once on a destroyed pool), db.destroy() closes the pool.
Drain(tasks, queue, open) ==
    IF tasks = <<>> THEN [queue |-> queue, open |-> open]
    ELSE LET t == Head(tasks)
         IN IF t.op = "dbDestroy"
            THEN Drain(Tail(tasks), AbortWaiting(queue), FALSE)
            ELSE Drain(Tail(tasks),
                       Append(queue, [t EXCEPT !.aborted = t.aborted \/ ~open]), open)

RunMicrotasks ==
    /\ microtasks # <<>>
    /\ LET d == Drain(microtasks, dbQueue, dbOpen)
       IN /\ dbQueue' = d.queue
          /\ dbOpen' = d.open
          /\ lastResult' = IF d.open # dbOpen
                           THEN Result("destroy", None, None, "resolved", FALSE)
                           ELSE NoResult
    /\ microtasks' = <<>>
    /\ UNCHANGED <<calls, now, workflowCount, stepCount, workflow, workflow_step, pendingSteps,
                   batchInsertTimer, handles, accepted, submitted, lost, faults,
                   flushedUpTo, called, destroyCalled, finalBatch,
                   handlerLists, invoked, timeouts>>

\* ------------------------------------------------------ WorkflowInstance
\* get id(): the workflowId the instance was constructed with.
Id(instance) == instance.id

InstanceAddStep(instance, step, t) == AddStep(Id(instance), step, t)

InstanceComplete(instance, t) == CompleteWorkflow(Id(instance), t)

\* Mutant of InstanceFail: fail() marks the workflow as completed.
FailCompletes(instance, t) == CompleteWorkflow(Id(instance), t)

InstanceFail(instance, t) == FailWorkflow(Id(instance), t)

InstanceGetSteps(instance) == GetSteps(Id(instance))

InstanceAddSteps(instance, steps, t) == AddSteps(Id(instance), steps, t)

InstanceDelete(instance) == DeleteWorkflow(Id(instance))

\* ------------------------------------------------------------ the store
HasPair(row, pair) == pair \in Range(row.identifiers)

\* `.first()` of the rows whose identifiers hold the pair, in rowid order.
FirstByIdentifier(rows, pair) ==
    LET hits == SelectSeq(rows, LAMBDA w : HasPair(w, pair))
    IN IF hits = <<>> THEN None ELSE Some(Head(hits))

\* Mutant of UpdateWorkflow: the UPDATE is guarded by status = 'pending'.
UpdateIfPending(rows, u) ==
    [i \in DOMAIN rows |->
        IF rows[i].id = u.id /\ rows[i].status = "pending"
        THEN [rows[i] EXCEPT !.status = u.status, !.ended_at = u.ended_at]
        ELSE rows[i]]

\* Mutant of UpdateWorkflow: the UPDATE sets started_at along with ended_at.
UpdateRestarts(rows, u) ==
    [i \in DOMAIN rows |->
        IF rows[i].id = u.id
        THEN [rows[i] EXCEPT !.status = u.status, !.ended_at = u.ended_at,
                             !.started_at = u.ended_at[1]]
        ELSE rows[i]]

\* The table workflow after the UPDATE u.
UpdateWorkflow(rows, u) ==
    [i \in DOMAIN rows |->
        IF rows[i].id = u.id
        THEN [rows[i] EXCEPT !.status = u.status, !.ended_at = u.ended_at]
        ELSE rows[i]]

\* The table workflow after the UPDATE of the identifiers of the rows of u.id.
UpdateIdentifiers(rows, u) ==
    [i \in DOMAIN rows |->
        IF rows[i].id = u.id THEN [rows[i] EXCEPT !.identifiers = u.identifiers]
        ELSE rows[i]]

\* `.first()` of the rows of that id.
FirstById(rows, id) ==
    LET hits == SelectSeq(rows, LAMBDA w : w.id = id)
    IN IF hits = <<>> THEN None ELSE Some(Head(hits))

\* Mutant of Delete: the where clause is lost, every row of the table goes.
DeleteUnfiltered(tables, stmt) ==
    IF stmt.from = "workflow_step"
    THEN [tables EXCEPT !.workflow_step = <<>>]
    ELSE [tables EXCEPT !.workflow = <<>>]

\* The two tables after one DELETE.
Delete(tables, stmt) ==
    IF stmt.from = "workflow_step"
    THEN [tables EXCEPT !.workflow_step =
             SelectSeq(@, LAMBDA x : stmt.where # None /\ x.workflow_id # stmt.where[1])]
    ELSE [tables EXCEPT !.workflow =
             SelectSeq(@, LAMBDA x : stmt.where # None /\ x.id # stmt.where[1])]

RECURSIVE DeleteAll(_, _, _)
\* The tables after the first n of the statements.
DeleteAll(tables, stmts, n) ==
    IF n = 0 THEN tables ELSE Delete(DeleteAll(tables, stmts, n - 1), stmts[n])

\* Mutant of Rollback: what the failed transaction has deleted stays deleted.
NoRollback(before, reached) == reached

\* The tables after a transaction that failed: as they were before it.
Rollback(before, reached) == before

\* db.transaction(): the statements run on the one connection with nothing
\* in between; an error at statement `failAt` (at the commit, if it is one
\* past the last) rolls back; failAt = 0 is no error.
Transaction(tables, stmts, failAt) ==
    IF failAt = 0 THEN DeleteAll(tables, stmts, Len(stmts))
    ELSE Rollback(tables, DeleteAll(tables, stmts, failAt - 1))

Statements(r) ==
    IF r.op = "deleteTransaction" THEN DeleteStatements(r.arg) ELSE DeleteAllStatements

TransactionOps == {"deleteTransaction", "deleteAllTransaction"}

\* Where the request may fail: a transaction at any of its statements or at
\* its commit (at the first, when it never got the connection).
FailPoints(r, failed) ==
    IF r.op \notin TransactionOps THEN {0}
    ELSE IF ~failed THEN {0}
    ELSE IF r.aborted THEN {1}
    ELSE 1..(Len(Statements(r)) + 1)

\* The two tables after the request r.
StoreAfter(r, failed, failAt) ==
    LET tables == [workflow |-> workflow, workflow_step |-> workflow_step]
    IN CASE r.op \in TransactionOps -> Transaction(tables, Statements(r), failAt)
         [] failed -> tables
         [] r.op = "insertWorkflow" -> [tables EXCEPT !.workflow = Append(@, r.arg)]
         [] r.op = "updateStatus" -> [tables EXCEPT !.workflow = UpdateWorkflow(@, r.arg)]
         [] r.op = "updateIdentifiers" ->
                [tables EXCEPT !.workflow = UpdateIdentifiers(@, r.arg)]
         [] r.op = "insertSteps" -> [tables EXCEPT !.workflow_step = @ \o r.arg]
         [] OTHER -> tables

\* ------------------------------------------------- the queries that read
\* The columns of table workflow.
Columns == {"id", "name", "identifiers", "status", "started_at", "ended_at"}

\* Mutant of Filtered: the identifier filter is not applied.
FilteredByStatus(rows, options) ==
    SelectSeq(rows, LAMBDA w : options.status # None => w.status = options.status[1])

\* The where clauses of getWorkflows: the status and the identifier, if given.
Filtered(rows, options) ==
    SelectSeq(rows, LAMBDA w :
        /\ options.status # None => w.status = options.status[1]
        /\ options.identifier # None => HasPair(w, options.identifier[1]))

\* The value ORDER BY compares: the column, NULL below every time.
SortKey(row, orderBy) ==
    IF orderBy = "started_at" THEN row.started_at
    ELSE IF row.ended_at = None THEN 0 ELSE row.ended_at[1]

\* a row of key a stays ahead of a later row of key b
InOrder(a, b, order) == IF order = "asc" THEN a <= b ELSE a >= b

RECURSIVE InsertOrdered(_, _, _, _)
InsertOrdered(s, r, orderBy, order) ==
    IF s = <<>> THEN <<r>>
    ELSE IF InOrder(SortKey(s[Len(s)], orderBy), SortKey(r, orderBy), order)
    THEN Append(s, r)
    ELSE Append(InsertOrdered(SubSeq(s, 1, Len(s) - 1), r, orderBy, order), s[Len(s)])

RECURSIVE OrderBy(_, _, _)
\* ORDER BY column ASC|DESC over rows scanned in rowid order: sqlite files
\* each row under (key, sequence number), so rows of equal key stay in scan
\* order, in either direction.
OrderBy(s, orderBy, order) ==
    IF s = <<>> THEN <<>>
    ELSE InsertOrdered(OrderBy(SubSeq(s, 1, Len(s) - 1), orderBy, order), s[Len(s)],
                       orderBy, order)

Min(a, b) == IF a <= b THEN a ELSE b

\* LIMIT limit OFFSET offset.  knex hands any integer limit to the store as
\* it is, and SQLite puts no upper bound on the rows when LIMIT is negative.
LimitOffset(rows, limit, offset) ==
    IF limit < 0 THEN SubSeq(rows, offset + 1, Len(rows))
    ELSE SubSeq(rows, offset + 1, Min(offset + limit, Len(rows)))

\* Mutant of Offset: pages are counted from 0.
OffsetFromZero(page, pageSize) == page * pageSize

\* const offset = (page - 1) * pageSize
Offset(page, pageSize) == (page - 1) * pageSize

\* Math.ceil(total / pageSize), for a positive pageSize
Ceil(total, pageSize) == (total + pageSize - 1) \div pageSize

\* What getWorkflows returns when both queries went through.
Page(rows, options, total) ==
    [workflows |-> LimitOffset(OrderBy(Filtered(rows, options), options.orderBy, options.order),
                               options.pageSize, Offset(options.page, options.pageSize)),
     total |-> total,
     page |-> options.page,
     pageSize |-> options.pageSize,
     totalPages |-> Ceil(total, options.pageSize)]

\* Mutant of StepsByIdentifier: the join without the condition on identifiers.
StepsOfAnyIdentifier(steps, rows, pair) ==
    OrderByCreatedAt(SelectSeq(steps, LAMBDA x : \E k \in DOMAIN rows : rows[k].id = x.workflow_id))

\* The join of getStepsByIdentifier: the steps whose workflow carries the
\* pair, ordered by created_at.
StepsByIdentifier(steps, rows, pair) ==
    OrderByCreatedAt(SelectSeq(steps, LAMBDA x :
        \E k \in DOMAIN rows : rows[k].id = x.workflow_id /\ HasPair(rows[k], pair)))

\* Mutant of WorkflowCounts: every row that is not pending counts as completed.
CountsOfEnded(rows) ==
    [total |-> Len(rows),
     completed |-> Len(SelectSeq(rows, LAMBDA w : w.status # "pending")),
     pending |-> Len(SelectSeq(rows, LAMBDA w : w.status = "pending"))]

\* COUNT(*) and the two SUM(CASE WHEN status = ? ...) over table workflow.
WorkflowCounts(rows) ==
    [total |-> Len(rows),
     completed |-> Len(SelectSeq(rows, LAMBDA w : w.status = "completed")),
     pending |-> Len(SelectSeq(rows, LAMBDA w : w.status = "pending"))]

RECURSIVE Ascending(_)
\* The members of a set of numbers, smallest first.
Ascending(S) ==
    IF S = {} THEN <<>>
    ELSE LET m == CHOOSE x \in S : \A y \in S : x <= y
         IN <<m>> \o Ascending(S \ {m})

\* SELECT workflow_id, COUNT(*) AS step_count ... GROUP BY workflow_id: one
\* row per workflow_id, in the order of the ids (ids are numbered as drawn).
StepCounts(steps) ==
    LET ids == Ascending({steps[i].workflow_id : i \in DOMAIN steps})
    IN [k \in DOMAIN ids |->
           [workflow_id |-> ids[k],
            step_count |-> Len(SelectSeq(steps, LAMBDA x : x.workflow_id = ids[k]))]]

RECURSIVE Sum(_)
Sum(counts) == IF counts = <<>> THEN 0 ELSE Head(counts).step_count + Sum(Tail(counts))

\* Mutant of AvgSteps: the mean is cut off after two decimals.
AvgStepsCutOff(counts) ==
    IF counts = <<>> THEN 0
    ELSE (100 * Sum(counts)) \div Len(counts)

\* Math.round(avgSteps * 100) / 100, kept in hundredths: the mean of the
\* step counts times 100, halves rounded up; 0 without any step.
AvgSteps(counts) ==
    IF counts = <<>> THEN 0
    ELSE (200 * Sum(counts) + Len(counts)) \div (2 * Len(counts))

\* What getWorkflowStats returns when both queries went through.
WorkflowStats(counts, stepCounts) ==
    [total |-> counts.total, completed |-> counts.completed, pending |-> counts.pending,
     avgSteps |-> AvgSteps(stepCounts)]

\* What getAverageStepDuration makes of the counts.
StepDurations(stepCounts) ==
    [k \in DOMAIN stepCounts |->
        [workflow_id |-> stepCounts[k].workflow_id, total_duration |-> 0,
         step_count |-> stepCounts[k].step_count]]

\* The step names in the order of the store's collation.
StepOrder == <<"a", "b">>

RECURSIVE InsertByCount(_, _)
InsertByCount(s, r) ==
    IF s = <<>> THEN <<r>>
    ELSE IF s[Len(s)].count >= r.count THEN Append(s, r)
    ELSE Append(InsertByCount(SubSeq(s, 1, Len(s) - 1), r), s[Len(s)])

RECURSIVE OrderByCountDesc(_)
OrderByCountDesc(s) ==
    IF s = <<>> THEN <<>>
    ELSE InsertByCount(OrderByCountDesc(SubSeq(s, 1, Len(s) - 1)), s[Len(s)])

\* SELECT step, COUNT(*) AS count ... GROUP BY step ORDER BY count DESC LIMIT
FrequentSteps(steps, limit) ==
    LET names == SelectSeq(StepOrder, LAMBDA n : \E i \in DOMAIN steps : steps[i].step = n)
        groups == [k \in DOMAIN names |->
                      [step |-> names[k],
                       count |-> Len(SelectSeq(steps, LAMBDA x : x.step = names[k]))]]
    IN LimitOffset(OrderByCountDesc(groups), limit, 0)

\* Mutant of Fallback: the fallback of getWorkflows echoes the page asked for.
FallbackEchoes(r) ==
    CASE r.kont = "getWorkflows" ->
            [workflows |-> <<>>, total |-> 0, page |-> r.arg.page,
             pageSize |-> r.arg.pageSize, totalPages |-> 0]
      [] r.kont = "stats" -> [total |-> 0, completed |-> 0, pending |-> 0, avgSteps |-> 0]
      [] OTHER -> <<>>

\* The second argument of wrap(), per operation.
Fallback(r) ==
    CASE r.kont = "getWorkflows" ->
            [workflows |-> <<>>, total |-> 0, page |-> 1, pageSize |-> 10, totalPages |-> 0]
      [] r.kont = "stats" -> [total |-> 0, completed |-> 0, pending |-> 0, avgSteps |-> 0]
      [] OTHER -> <<>>

\* wrap(fn, fallback): what fn returns, or the fallback when it throws.
wrap(value, failed, fallback) == IF failed THEN fallback ELSE value

\* workflow_step.step is notNullable: a batch holding a null step name is
\* refused as a whole.
Violates(r) ==
    \/ r.op = "insertSteps" /\ \E i \in DOMAIN r.arg : r.arg[i].step = NullName
    \/ r.op = "selectWorkflows" /\ r.arg.orderBy \notin Columns

\* What the catch of flushBatchInserts makes of a failed insert: the error is
\* logged, the promise resolves, the buffer is not touched.
FlushOutcome(failed) == "resolved"
\* Mutant of AfterFailedInsert: the failed batch is put back into the buffer.
Requeued(pending, batch) == batch \o pending
AfterFailedInsert(pending, batch) == pending

\* Mutant of ReadValue: getSteps also returns the steps still buffered.
ReadThroughBuffer(r, failed) ==
    CASE r.op = "selectByIdentifier" ->
            IF failed THEN None ELSE FirstByIdentifier(workflow, r.arg)
      [] r.op = "selectSteps" ->
            IF failed THEN <<>>
            ELSE OrderByCreatedAt(StepsOf(workflow_step \o pendingSteps, r.arg))
      [] OTHER -> None

\* What a read resolves to: the rows, or wrap()'s fallback on an error.
ReadValue(r, failed) ==
    CASE r.op = "selectByIdentifier" ->
            IF failed THEN None ELSE FirstByIdentifier(workflow, r.arg)
      [] r.op = "selectWorkflow" ->
            IF failed THEN None ELSE FirstById(workflow, r.arg)
      [] r.op = "selectSteps" ->
            IF failed THEN <<>> ELSE OrderByCreatedAt(StepsOf(workflow_step, r.arg))
      [] OTHER -> None

\* The requests the code awaiting r issues when r has ended, before anything
\* else runs.
Followup(r, failed) ==
    CASE r.op = "selectByIdentifier" /\ r.kont = "attach" ->
            AttachFollowup(r, ReadValue(r, failed))
      [] r.op = "selectWorkflow" /\ r.kont = "delete" ->
            DeleteFollowup(r, ReadValue(r, failed))
      [] r.op = "countWorkflows" /\ ~failed ->
            GetWorkflowsFollowup(r, Len(Filtered(workflow, r.arg)))
      [] r.op = "selectWorkflowStats" /\ ~failed ->
            GetWorkflowStatsFollowup(r, WorkflowCounts(workflow))
      [] OTHER -> <<>>

\* The value of the promise that resolves when r has ended.
Resolves(r, failed) ==
    CASE r.op = "insertSteps" /\ r.kont = "flush" ->
            Result("flush", IdSeq(r.arg), r.snap, FlushOutcome(failed), failed)
      [] r.op = "insertSteps" /\ r.kont = "destroy" ->
            Result("destroy", IdSeq(r.arg), r.snap, "resolved", failed)
      [] r.op = "insertSteps" /\ r.kont = "addSteps" ->
            Result("addSteps", IdSeq(r.arg), r.snap, "resolved", failed)
      [] r.op = "selectByIdentifier" /\ r.kont = "attach" ->
            IF Followup(r, failed) = <<>>
            THEN Result("attachIdentifier", r.arg, r.snap, FALSE, failed)
            ELSE NoResult
      [] r.op = "updateIdentifiers" ->
            Result("attachIdentifier", r.snap.pair, r.snap, ~failed, failed)
      [] r.op = "selectWorkflow" /\ r.kont = "delete" ->
            IF Followup(r, failed) = <<>>
            THEN Result("deleteWorkflow", r.arg, r.snap, FALSE, failed)
            ELSE NoResult
      [] r.op = "deleteTransaction" ->
            Result("deleteWorkflow", r.arg, r.snap, ~failed, failed)
      [] r.op = "deleteAllTransaction" ->
            Result("deleteAllWorkflows", r.arg, r.snap, ~failed, failed)
      [] r.op \in {"selectByIdentifier", "selectSteps"} ->
            Result(r.op, r.arg, r.snap, ReadValue(r, failed), failed)
      [] r.op = "countWorkflows" ->
            IF failed THEN Result("getWorkflows", r.arg, r.snap, Fallback(r), failed)
            ELSE NoResult
      [] r.op = "selectWorkflows" ->
            Result("getWorkflows", r.arg, r.snap,
                   wrap(Page(workflow, r.arg, r.snap.total), failed, Fallback(r)), failed)
      [] r.op = "selectStepsByIdentifier" ->
            Result("getStepsByIdentifier", r.arg, r.snap,
                   wrap(StepsByIdentifier(workflow_step, workflow, r.arg), failed, Fallback(r)),
                   failed)
      [] r.op = "selectFrequentSteps" ->
            Result("getMostFrequentSteps", r.arg, r.snap,
                   wrap(FrequentSteps(workflow_step, r.arg), failed, Fallback(r)), failed)
      [] r.op = "selectStepCounts" /\ r.kont = "averageDuration" ->
            Result("getAverageStepDuration", r.arg, r.snap,
                   wrap(StepDurations(StepCounts(workflow_step)), failed, Fallback(r)), failed)
      [] r.op = "selectWorkflowStats" ->
            IF failed THEN Result("getWorkflowStats", r.arg, r.snap, Fallback(r), failed)
            ELSE NoResult
      [] r.op = "selectStepCounts" /\ r.kont = "stats" ->
            Result("getWorkflowStats", r.arg, r.snap,
                   wrap(WorkflowStats(r.snap.counts, StepCounts(workflow_step)), failed,
                        Fallback(r)),
                   failed)
      [] OTHER -> NoResult

\* Mutant of Handled: the start handlers run whether the insert went through
\* or not.
InvokedOnError(r, failed) ==
    CASE r.op = "insertWorkflow" ->
             Invoke(startHandlers, Event("start", r.arg.id, None, r.arg.started_at))
      [] OTHER -> <<>>

\* The handler invocations of the code that runs on when request r has ended:
\* the `.then` of startWorkflow, completeWorkflow and failWorkflow, the loop
\* after the awaited insert of addSteps; none when the request failed.
Handled(r, failed) ==
    IF failed THEN <<>>
    ELSE CASE r.op = "insertWorkflow" ->
                 Invoke(startHandlers, Event("start", r.arg.id, None, r.arg.started_at))
           [] r.op = "updateStatus" /\ r.kont = "complete" ->
                 Invoke(completeHandlers, Event("complete", r.arg.id, None, r.arg.ended_at))
           [] r.op = "updateStatus" /\ r.kont = "fail" ->
                 Invoke(failHandlers, Event("fail", r.arg.id, None, r.arg.ended_at))
           [] r.op = "insertSteps" /\ r.kont = "addSteps" ->
                 InvokeForEach(stepHandlers, r.arg)
           [] OTHER -> <<>>

\* The store ends the oldest request, with an error if `inject`, and the
\* code awaiting it runs on.
DbExec(inject) ==
    /\ microtasks = <<>>
    /\ dbQueue # <<>>
    /\ LET r == Head(dbQueue)
           refused == r.aborted \/ Violates(r)
           failed == refused \/ inject
       IN /\ inject => (faults < MaxFaults /\ ~refused)
          /\ faults' = IF inject THEN faults + 1 ELSE faults
          /\ \E failAt \in FailPoints(r, failed) :
                /\ workflow' = StoreAfter(r, failed, failAt).workflow
                /\ workflow_step' = StoreAfter(r, failed, failAt).workflow_step
          /\ lost' = IF failed /\ r.op = "insertSteps" THEN lost \cup Ids(r.arg) ELSE lost
          /\ IF r.op = "insertSteps" /\ r.kont = "destroy"
             THEN /\ dbOpen' = FALSE
                  /\ dbQueue' = AbortWaiting(Tail(dbQueue))
             ELSE /\ dbOpen' = dbOpen
                  /\ dbQueue' = Tail(dbQueue) \o Followup(r, failed)
          /\ flushedUpTo' =
                IF r.op = "insertSteps" /\ r.kont = "flush"
                THEN Max(flushedUpTo, r.snap.upTo) ELSE flushedUpTo
          /\ lastResult' = Resolves(r, failed)
          /\ invoked' = invoked \o Handled(r, failed)
          /\ pendingSteps' =
                IF failed /\ r.op = "insertSteps" /\ r.kont # "addSteps"
                THEN AfterFailedInsert(pendingSteps, r.arg) ELSE pendingSteps
    /\ UNCHANGED <<calls, now, workflowCount, stepCount, batchInsertTimer,
                   microtasks, handles, accepted, submitted, called, destroyCalled,
                   finalBatch,
                   handlerLists, timeouts>>

\* ------------------------------------------------------- specifications
HandleIds == {handles[i].id : i \in DOMAIN handles}

\* Every call made so far has been awaited: nothing of it is left to run.
Awaited == microtasks = <<>> /\ dbQueue = <<>>
Times == 1..MaxTime

\* Every operation, in any order, the store failing at will.
Next ==
    \/ RunMicrotasks
    \/ \E inject \in BOOLEAN : DbExec(inject)
    \/ \E ids \in IdentifierLists, t \in Times : StartWorkflow("w", ids, t)
    \/ \E w \in HandleIds, s \in StepNames, t \in Times : AddStep(w, s, t)
    \/ \E w \in HandleIds, l \in StepLists, t \in Times : AddSteps(w, l, t)
    \/ FlushBatchInserts
    \/ TimerFire
    \/ \E w \in HandleIds : GetSteps(w)
    \/ \E w \in HandleIds, t \in Times : CompleteWorkflow(w, t)
    \/ \E w \in HandleIds, t \in Times : FailWorkflow(w, t)
    \/ \E p \in Pairs : GetWorkflowByIdentifier(p[1], p[2])
    \/ \E p \in Pairs, n \in NewIdentifiers : AttachIdentifier(p[1], p[2], n)
    \/ \E w \in HandleIds : DeleteWorkflow(w)
    \/ DeleteAllWorkflows
    \/ Destroy

Spec == Init /\ [][Next]_vars

\* The buffer alone: steps are added, flushed by the timer or by hand and
\* read back, the store accepting every request.
FlushNext ==
    \/ RunMicrotasks
    \/ DbExec(FALSE)
    \/ \E t \in Times : StartWorkflow("w", <<>>, t)
    \/ \E w \in HandleIds, t \in Times : AddStep(w, "a", t)
    \/ FlushBatchInserts
    \/ TimerFire
    \/ \E w \in HandleIds : GetSteps(w)

FlushSpec == Init /\ [][FlushNext]_vars

\* The buffer with a store that may refuse a request.
FaultNext ==
    \/ RunMicrotasks
    \/ \E inject \in BOOLEAN : DbExec(inject)
    \/ \E t \in Times : StartWorkflow("w", <<>>, t)
    \/ \E w \in HandleIds, t \in Times : AddStep(w, "a", t)
    \/ FlushBatchInserts
    \/ TimerFire

FaultSpec == Init /\ [][FaultNext]_vars

\* The buffer left to the timer: no flushBatchInserts, no destroy, the clock
\* standing still (no timestamp is read back).  Node runs
\* a due timer, the microtasks of a finished block and the store's next
\* request: each is weakly fair.
TimerNext ==
    \/ RunMicrotasks
    \/ \E inject \in BOOLEAN : DbExec(inject)
    \/ StartWorkflow("w", <<>>, now)
    \/ \E w \in HandleIds : AddStep(w, "a", now)
    \/ TimerFire

TimerSpec ==
    /\ Init /\ [][TimerNext]_vars
    /\ WF_vars(TimerFire)
    /\ WF_vars(RunMicrotasks)
    /\ WF_vars(\E inject \in BOOLEAN : DbExec(inject))

\* The buffer across shutdown.
DestroyNext ==
    \/ RunMicrotasks
    \/ \E inject \in BOOLEAN : DbExec(inject)
    \/ \E t \in Times : StartWorkflow("w", <<>>, t)
    \/ \E w \in HandleIds, t \in Times : AddStep(w, "a", t)
    \/ FlushBatchInserts
    \/ TimerFire
    \/ Destroy

DestroySpec == Init /\ [][DestroyNext]_vars

\* Steps read back while the workflow is completed.
ReadNext ==
    \/ RunMicrotasks
    \/ DbExec(FALSE)
    \/ \E t \in Times : StartWorkflow("w", <<>>, t)
    \/ \E w \in HandleIds, t \in Times : AddStep(w, "a", t)
    \/ \E w \in HandleIds, t \in Times : CompleteWorkflow(w, t)
    \/ FlushBatchInserts
    \/ TimerFire
    \/ \E w \in HandleIds : GetSteps(w)

ReadSpec == Init /\ [][ReadNext]_vars

\* Workflows started, completed and looked up by identifier.
LookupNext ==
    \/ RunMicrotasks
    \/ DbExec(FALSE)
    \/ \E ids \in IdentifierLists, t \in Times : StartWorkflow("w", ids, t)
    \/ \E w \in HandleIds, t \in Times : CompleteWorkflow(w, t)
    \/ \E p \in Pairs : GetWorkflowByIdentifier(p[1], p[2])

LookupSpec == Init /\ [][LookupNext]_vars

\* The status of a workflow row under completeWorkflow and failWorkflow; no
\* query is awaited, so no microtask is ever queued.
StatusNext ==
    \/ DbExec(FALSE)
    \/ \E t \in Times : StartWorkflow("w", <<>>, t)
    \/ \E w \in HandleIds, t \in Times : CompleteWorkflow(w, t)
    \/ \E w \in HandleIds, t \in Times : FailWorkflow(w, t)

StatusSpec == Init /\ [][StatusNext]_vars

\* Steps written through the buffer and past it, and read back; a batch
\* holding a null step name is the one the store refuses.
StepsNext ==
    \/ RunMicrotasks
    \/ DbExec(FALSE)
    \/ \E t \in Times : StartWorkflow("w", <<>>, t)
    \/ \E w \in HandleIds, t \in Times : AddStep(w, "a", t)
    \/ \E w \in HandleIds, l \in StepLists, t \in Times : AddSteps(w, l, t)
    \/ FlushBatchInserts
    \/ TimerFire
    \/ \E w \in HandleIds : GetSteps(w)

StepsSpec == Init /\ [][StepsNext]_vars

\* Identifiers attached to workflows standing side by side, the calls
\* overlapping at will, and looked up once the calls made have been awaited.
AttachNext ==
    \/ RunMicrotasks
    \/ DbExec(FALSE)
    \/ \E ids \in SoleIdentifiers : StartWorkflowUpTo(MaxListed, "w", ids, now)
    \/ \E p \in Pairs, n \in NewIdentifiers : AttachIdentifier(p[1], p[2], n)
    \/ \E p \in Pairs : Awaited /\ GetWorkflowByIdentifier(p[1], p[2])

AttachSpec == Init /\ [][AttachNext]_vars

\* One workflow started with the pair (k, 1) and calls of attachIdentifier
\* that overlap: each finds the workflow by (k, 1) and attaches another pair.
OverlapNext ==
    \/ RunMicrotasks
    \/ DbExec(FALSE)
    \/ StartWorkflow("w", <<<<"k", "1">>>>, now)
    \/ \E n \in AttachedPairs : AttachIdentifier("k", "1", n)
    \/ \E p \in AttachedPairs : Awaited /\ GetWorkflowByIdentifier(p[1], p[2])

OverlapSpec == Init /\ [][OverlapNext]_vars

\* Workflows completed and failed next to everything else that writes: steps
\* buffered and flushed by the timer, identifiers attached, workflows
\* deleted, the clock advancing.  A workflow is started, an identifier
\* attached and a workflow deleted when nothing else is in flight.
FrameNext ==
    \/ RunMicrotasks
    \/ DbExec(FALSE)
    \/ Awaited /\ StartWorkflowUpTo(MaxListed, "w", <<<<"k", "1">>>>, now)
    \/ \E w \in HandleIds, t \in Times : CompleteWorkflow(w, t)
    \/ \E w \in HandleIds : FailWorkflow(w, now)
    \/ \E w \in HandleIds : AddStep(w, "a", now)
    \/ TimerFire
    \/ Awaited /\ AttachIdentifier("k", "1", <<"k", "3">>)
    \/ \E w \in HandleIds : Awaited /\ DeleteWorkflow(w)

FrameSpec == Init /\ [][FrameNext]_vars

\* Workflows whose insert the store may refuse, with a start handler
\* registered; steps are added through the handles, workflows completed and
\* their steps read; deleteWorkflow is called on a handle that has no row.
RefusedNext ==
    \/ RunMicrotasks
    \/ \E inject \in BOOLEAN :
          /\ inject => (dbQueue # <<>> /\ Head(dbQueue).op = "insertWorkflow")
          /\ DbExec(inject)
    \/ StartWorkflowUpTo(MaxListed, "w", <<>>, now)
    \/ OnStart("f")
    \/ \E w \in HandleIds : AddStep(w, "a", now)
    \/ TimerFire
    \/ \E w \in HandleIds : CompleteWorkflow(w, now)
    \/ \E w \in HandleIds : Awaited /\ GetSteps(w)
    \/ \E w \in HandleIds : Awaited /\ Gone(w) /\ DeleteWorkflow(w)

RefusedSpec == Init /\ [][RefusedNext]_vars

\* Workflows deleted one by one or all at once while steps are buffered,
\* flushed and read; the store may fail a transaction.  A step is added only
\* to a workflow that has not been deleted; the clock stands still.
DeleteNext ==
    \/ RunMicrotasks
    \/ \E inject \in BOOLEAN :
          /\ inject => (dbQueue # <<>> /\ Head(dbQueue).kont \in {"delete", "deleteAll"})
          /\ DbExec(inject)
    \/ StartWorkflowUpTo(MaxListed, "w", <<>>, now)
    \/ \E w \in HandleIds : ~Gone(w) /\ AddStep(w, "a", now)
    \/ FlushBatchInserts
    \/ TimerFire
    \/ \E w \in HandleIds : GetSteps(w)
    \/ \E w \in HandleIds : DeleteWorkflow(w)
    \/ DeleteAllWorkflows

DeleteSpec == Init /\ [][DeleteNext]_vars

\* Every operation that has a fallback, against a store that fails: an error
\* of the connection while it serves one of them, the pool closed by
\* destroy(), a column that does not exist.  The application awaits each of
\* these operations before it calls the next; the clock stands still.
FallbackNext ==
    \/ RunMicrotasks
    \/ \E inject \in BOOLEAN :
          /\ inject => (dbQueue # <<>> /\ Head(dbQueue).kont \notin {"startHandlers", "flush"})
          /\ DbExec(inject)
    \/ \E ids \in SoleIdentifiers : StartWorkflow("w", ids, now)
    \/ \E w \in HandleIds : AddStep(w, "a", now)
    \/ FlushBatchInserts
    \/ \E page \in {None, Some(2)}, orderBy \in {None, Some("invalid_column")} :
          Awaited /\ GetWorkflows(None, None, page, page, orderBy, None)
    \/ \E w \in HandleIds : Awaited /\ GetSteps(w)
    \/ Awaited /\ GetStepsByIdentifier("k", "1")
    \/ Awaited /\ GetMostFrequentSteps(None)
    \/ Awaited /\ GetAverageStepDuration
    \/ Awaited /\ GetWorkflowStats
    \/ Awaited /\ AttachIdentifier("k", "1", <<"k", "2">>)
    \/ \E w \in HandleIds : Awaited /\ DeleteWorkflow(w)
    \/ Awaited /\ DeleteAllWorkflows
    \/ Destroy

FallbackSpec == Init /\ [][FallbackNext]_vars

\* Workflows started, completed and listed page by page, newest first or by
\* the time they ended; the store accepts every request.  A listing is called
\* when nothing else is under way; the calls that write may overlap it.
PageNext ==
    \/ RunMicrotasks
    \/ DbExec(FALSE)
    \/ \E t \in Times : StartWorkflowUpTo(MaxPaged, "w", <<>>, t)
    \/ \E w \in HandleIds : CompleteWorkflow(w, now)
    \/ \E page \in 1..MaxPaged, pageSize \in PageSizes,
          by \in {<<None, None>>, <<Some("ended_at"), Some("asc")>>} :
          Awaited /\ GetWorkflows(None, None, Some(page), Some(pageSize), by[1], by[2])

PageSpec == Init /\ [][PageNext]_vars

\* Workflows with different identifiers, some completed, listed with a
\* status filter, an identifier filter, both or none; the store accepts every
\* request and the clock stands still.
FilterNext ==
    \/ RunMicrotasks
    \/ DbExec(FALSE)
    \/ \E ids \in SoleIdentifiers : StartWorkflowUpTo(MaxListed, "w", ids, now)
    \/ \E w \in HandleIds : CompleteWorkflow(w, now)
    \/ \E status \in {None, Some("completed"), Some("pending")},
          identifier \in {None, Some(<<"k", "1">>)} :
          Awaited /\ GetWorkflows(status, identifier, None, None, None, None)

FilterSpec == Init /\ [][FilterNext]_vars

\* Workflows with and without persisted steps, listed by step name; the store
\* accepts every request and the clock stands still.
StepFilterNext ==
    \/ RunMicrotasks
    \/ DbExec(FALSE)
    \/ StartWorkflowUpTo(MaxListed, "w", <<>>, now)
    \/ \E w \in HandleIds, step \in StepNames : AddStep(w, step, now)
    \/ FlushBatchInserts
    \/ \E step \in StepNames : Awaited /\ GetWorkflowsByStep(step)

StepFilterSpec == Init /\ [][StepFilterNext]_vars

\* getMostFrequentSteps, with and without a limit, over the steps the timer
\* has flushed so far.
FrequentNext ==
    \/ RunMicrotasks
    \/ DbExec(FALSE)
    \/ StartWorkflow("w", <<>>, now)
    \/ \E w \in HandleIds, step \in StepNames : AddStep(w, step, now)
    \/ TimerFire
    \/ \E limit \in {None} \cup {Some(n) : n \in Limits} :
          Awaited /\ GetMostFrequentSteps(limit)

FrequentSpec == Init /\ [][FrequentNext]_vars

\* Steps of workflows that carry one pair or another, buffered or inserted
\* at once, read by identifier; a workflow may be deleted while steps of it
\* are buffered, which leaves them without a parent when the timer fires.
IdentifierNext ==
    \/ RunMicrotasks
    \/ DbExec(FALSE)
    \/ \E ids \in SoleIdentifiers : StartWorkflowUpTo(MaxListed, "w", ids, now)
    \/ \E w \in HandleIds, t \in Times : AddStep(w, "a", t)
    \/ \E w \in HandleIds : Awaited /\ AddSteps(w, <<"a", "b">>, now)
    \/ TimerFire
    \/ \E w \in HandleIds : Awaited /\ DeleteWorkflow(w)
    \/ \E p \in Pairs : Awaited /\ GetStepsByIdentifier(p[1], p[2])

IdentifierSpec == Init /\ [][IdentifierNext]_vars

\* Handlers registered at any moment while a workflow is started, given
\* steps, completed and failed; the store may fail a request.
HandlerNext ==
    \/ RunMicrotasks
    \/ \E inject \in BOOLEAN : DbExec(inject)
    \/ StartWorkflow("w", <<>>, now)
    \/ \E w \in HandleIds : AddStep(w, "a", now)
    \/ \E w \in HandleIds : Awaited /\ AddSteps(w, <<"a", "b">>, now)
    \/ TimerFire
    \/ \E w \in HandleIds : CompleteWorkflow(w, now)
    \/ \E w \in HandleIds : FailWorkflow(w, now)
    \/ \E handler \in HandlerNames : OnStep(handler)
    \/ \E handler \in HandlerNames : OnStart(handler)
    \/ \E handler \in HandlerNames : OnComplete(handler)
    \/ \E handler \in HandlerNames : OnFail(handler)

HandlerSpec == Init /\ [][HandlerNext]_vars

\* An application that works through the instance startWorkflow returned,
\* never through the methods of Liteflow that take an id; it awaits what it
\* has called before it calls a method that returns a promise.
InstanceNext ==
    \/ RunMicrotasks
    \/ DbExec(FALSE)
    \/ StartWorkflow("w", <<>>, now)
    \/ TimerFire
    \/ \E instance \in Range(handles) : InstanceAddStep(instance, "a", now)
    \/ \E instance \in Range(handles) : Awaited /\ InstanceAddSteps(instance, <<"a", "b">>, now)
    \/ \E instance \in Range(handles) : Awaited /\ InstanceComplete(instance, now)
    \/ \E instance \in Range(handles) : Awaited /\ InstanceFail(instance, now)
    \/ \E instance \in Range(handles) : Awaited /\ InstanceGetSteps(instance)
    \/ \E instance \in Range(handles) : Awaited /\ InstanceDelete(instance)

InstanceSpec == Init /\ [][InstanceNext]_vars

\* Steps with and without a name, for the workflow started and for an id
\* that no workflow has, buffered and flushed by the timer or by hand.
NamelessNext ==
    \/ RunMicrotasks
    \/ DbExec(FALSE)
    \/ StartWorkflow("w", <<>>, now)
    \/ \E w \in HandleIds \cup {NonExistent}, step \in {"a", NullName} : AddStep(w, step, now)
    \/ TimerFire
    \/ FlushBatchInserts

NamelessSpec == Init /\ [][NamelessNext]_vars

RECURSIVE StepsPersisted(_, _)
\* The table workflow_step after addSteps has persisted counts[w] steps "a"
\* for each workflow w <= n, in the order of the workflows, at time 1.
StepsPersisted(counts, n) ==
    IF n = 0 THEN <<>>
    ELSE LET before == StepsPersisted(counts, n - 1)
         IN before \o [i \in 1..counts[n] |->
                          [id |-> Len(before) + i, workflow_id |-> n, step |-> "a",
                           created_at |-> 1]]

\* MaxPaged workflows have been started and, for each, one addSteps call has
\* persisted up to MaxBatch steps (or none was made); every call has been
\* awaited.  The workflows that got more steps were started first (any other
\* order is this one with the ids renamed); `calls` counts the calls made
\* from here on.
StatsInit ==
    \E counts \in [1..MaxPaged -> 0..MaxBatch] :
        /\ \A w \in 2..MaxPaged : counts[w - 1] >= counts[w]
        /\ now = 1
        /\ workflowCount = MaxPaged
        /\ workflow = [w \in 1..MaxPaged |-> NewWorkflowRow(w, "w", <<>>, 1)]
        /\ handles = [w \in 1..MaxPaged |-> [id |-> w, identifiers |-> <<>>, startedAt |-> 1]]
        /\ called = [w \in 1..MaxPaged |-> {}]
        /\ workflow_step = StepsPersisted(counts, MaxPaged)
        /\ stepCount = Len(StepsPersisted(counts, MaxPaged))
        /\ submitted = [i \in 1..Len(StepsPersisted(counts, MaxPaged)) |-> 1]
        /\ pendingSteps = <<>>
        /\ batchInsertTimer = None
        /\ microtasks = <<>>
        /\ dbQueue = <<>>
        /\ dbOpen = TRUE
        /\ accepted = <<>>
        /\ lost = {}
        /\ faults = 0
        /\ flushedUpTo = 0
        /\ destroyCalled = FALSE
        /\ finalBatch = <<>>
        /\ calls = 0
        /\ stepHandlers = <<>>
        /\ startHandlers = <<>>
        /\ completeHandlers = <<>>
        /\ failHandlers = <<>>
        /\ invoked = <<>>
        /\ timeouts = <<>>
        /\ lastResult = NoResult

\* Statistics taken of workflows completed and failed, while further steps
\* are buffered and flushed; the store accepts every request and the clock
\* stands still.  A status call and a call for the statistics are made when
\* nothing else is under way.
StatsNext ==
    \/ RunMicrotasks
    \/ DbExec(FALSE)
    \/ \E w \in HandleIds : Awaited /\ CompleteWorkflow(w, now)
    \/ \E w \in HandleIds : Awaited /\ FailWorkflow(w, now)
    \/ \E w \in HandleIds : AddStep(w, "a", now)
    \/ FlushBatchInserts
    \/ Awaited /\ GetWorkflowStats

StatsSpec == StatsInit /\ [][StatsNext]_vars

\* ================================================================ claims
Inserts == SelectSeq(dbQueue \o microtasks, LAMBDA r : r.op = "insertSteps")

C2_ExactlyOneBatch ==
    \A i \in DOMAIN accepted :
        LET id == accepted[i].id
            buffered == Cardinality({k \in DOMAIN pendingSteps : pendingSteps[k].id = id})
        IN /\ submitted[id] + buffered = 1
           /\ submitted[id] = 1 =>
                 \/ id \in Ids(workflow_step) \cup lost
                 \/ Cardinality({k \in DOMAIN Inserts : id \in Ids(Inserts[k].arg)}) = 1

\* C2 witness: two batch inserts are in flight and a step added meanwhile
\* waits in the buffer.
C2_Witness ==
    /\ Len(Inserts) >= 2
    /\ pendingSteps # <<>>

\* C4: when a batch insert fails, the flush that awaits it still resolves,
\* the store and the buffer are left as they were (the steps added since the
\* swap stay buffered), and the records of the batch are gone for good: they
\* are in no table, not in the buffer and in no other batch.
C4_FailedStep ==
    lost' # lost =>
        /\ pendingSteps' = pendingSteps
        /\ workflow_step' = workflow_step
        /\ batchInsertTimer' = batchInsertTimer
        /\ lastResult'.op = "flush" => lastResult'.value = "resolved"

C4_Dropped ==
    \A id \in lost :
        /\ id \notin Ids(workflow_step)
        /\ id \notin Ids(pendingSteps)
        /\ submitted[id] = 1
        /\ \A k \in DOMAIN Inserts : id \notin Ids(Inserts[k].arg)

C3_TimerPersists ==
    \A id \in 1..MaxSteps :
        (id \in Ids(accepted)) ~> (id \in Ids(workflow_step) \/ id \in lost)

\* C3 witness: two steps have been persisted by timer flushes alone.
C3_Witness ==
    /\ Len(workflow_step) >= 2
    /\ lost = {}
    /\ pendingSteps = <<>>
    /\ batchInsertTimer = None

\* C5: the call of destroy() clears the timer and hands the whole buffer to
\* the store as one batch insert (none for an empty buffer); the connection
\* is released only when that insert has resolved.
C5_DestroyStep ==
    (destroyCalled' /\ ~destroyCalled) =>
        /\ batchInsertTimer' = None
        /\ pendingSteps' = <<>>
        /\ IF pendingSteps = <<>> THEN Inserts' = Inserts
           ELSE /\ Len(Inserts') = Len(Inserts) + 1
                /\ Inserts'[Len(Inserts')].arg = pendingSteps

C5_ReleasedAfterInsert ==
    ~dbOpen =>
        /\ destroyCalled
        /\ Ids(finalBatch) \subseteq Ids(workflow_step) \cup lost
        /\ \A k \in DOMAIN Inserts : Ids(Inserts[k].arg) \cap Ids(finalBatch) = {}

C5_DestroyFlushesThenReleases == [][C5_DestroyStep]_vars /\ []C5_ReleasedAfterInsert

\* C5 witness: the connection is released and the steps that were buffered
\* (with the timer armed) when destroy() was called are in the table.
C5_Witness ==
    /\ ~dbOpen
    /\ Len(finalBatch) >= 2
    /\ Ids(finalBatch) \subseteq Ids(workflow_step)

\* C6 as stated: when destroy() resolves the buffer is empty and no timer is
\* armed, also when addStep is called while the final flush awaits the store.
C6_NothingBufferedAfterDestroy ==
    lastResult.op = "destroy" => (pendingSteps = <<>> /\ batchInsertTimer = None)

\* C7: getSteps neither reads nor changes the buffer and the timer, at its
\* call and when its select resolves, and returns persisted steps only; once
\* a flush made after the last addStep has resolved, every step added to the
\* workflow is among them.
GetStepsCalled ==
    /\ Len(microtasks') = Len(microtasks) + 1
    /\ microtasks'[Len(microtasks')].op = "selectSteps"

C7_Step ==
    /\ GetStepsCalled => UNCHANGED <<pendingSteps, batchInsertTimer, workflow, workflow_step>>
    /\ lastResult'.op = "selectSteps" =>
          /\ UNCHANGED <<pendingSteps, batchInsertTimer, workflow_step>>
          /\ Ids(lastResult'.value) \subseteq Ids(workflow_step)
          /\ Ids(lastResult'.value) \cap Ids(pendingSteps) = {}

C7_AfterFlush ==
    (lastResult.op = "selectSteps" /\ lastResult.snap.awaited)
        => Range(lastResult.snap.expect) \subseteq Ids(lastResult.value)

SameRow(i, k) == workflow[i].id = workflow'[k].id

\* C10 as stated: completed and failed are terminal, the status of a row
\* that has left pending never changes again.
C10_TerminalStatus ==
    [][\A i \in DOMAIN workflow, k \in DOMAIN workflow' :
          (SameRow(i, k) /\ workflow[i].status # "pending")
              => workflow'[k].status = workflow[i].status]_vars

\* C10 amended: a status is pending, completed or failed, a row is created
\* pending, and a row that has left pending never returns to it (it may still
\* pass from completed to failed and back).
C10_NeverBackToPending ==
    [][/\ \A i \in DOMAIN workflow, k \in DOMAIN workflow' :
            (SameRow(i, k) /\ workflow[i].status # "pending")
                => workflow'[k].status \in {"completed", "failed"}
       /\ \A k \in DOMAIN workflow' :
            /\ workflow'[k].status \in {"pending", "completed", "failed"}
            /\ (\A i \in DOMAIN workflow : ~SameRow(i, k))
                  => workflow'[k].status = "pending"]_vars

\* C10 witness: completeWorkflow and failWorkflow have both been called on a
\* workflow and both updates have been applied to its row.
C10_Witness ==
    /\ dbQueue = <<>>
    /\ microtasks = <<>>
    /\ \E i \in DOMAIN workflow :
          /\ {"complete", "fail"} \subseteq called[workflow[i].id]
          /\ "early" \notin called[workflow[i].id]
          /\ workflow[i].status # "pending"

\* C11: completeWorkflow and failWorkflow overwrite status and ended_at
\* whatever the current status is: when the store applies the update of one
\* call, every row of that id carries that call's status and that call's
\* ended_at; a row's status and ended_at change in no other way, so the two
\* always come from one call (both unset on a row no call has reached).
StatusApplied ==
    /\ dbQueue # <<>>
    /\ Head(dbQueue).op = "updateStatus"
    /\ ~Head(dbQueue).aborted
    /\ dbQueue' = Tail(dbQueue)

C11_Step ==
    /\ StatusApplied =>
          \A k \in DOMAIN workflow' :
              workflow'[k].id = Head(dbQueue).arg.id
                  => /\ workflow'[k].status = Head(dbQueue).arg.status
                     /\ workflow'[k].ended_at = Head(dbQueue).arg.ended_at
    /\ \A i \in DOMAIN workflow, k \in DOMAIN workflow' :
          (SameRow(i, k) /\ (workflow'[k].status # workflow[i].status
                              \/ workflow'[k].ended_at # workflow[i].ended_at))
              => (StatusApplied /\ Head(dbQueue).arg.id = workflow[i].id)

C11_OneCall ==
    /\ \A i \in DOMAIN workflow :
          (workflow[i].status = "pending") <=> (workflow[i].ended_at = None)
    /\ \A k \in DOMAIN dbQueue :
          dbQueue[k].op = "updateStatus" =>
              /\ dbQueue[k].arg.ended_at # None
              /\ dbQueue[k].arg.status =
                    (IF dbQueue[k].kont = "complete" THEN "completed" ELSE "failed")

C11_UnconditionalOverwrite == [][C11_Step]_vars /\ []C11_OneCall

\* C11 witness: failWorkflow and then completeWorkflow have been applied to
\* a stored row (the clock read in between): the row is completed and
\* carries the later ended_at.
C11_Witness ==
    /\ dbQueue = <<>>
    /\ \E i \in DOMAIN workflow :
          /\ called[workflow[i].id] = {"complete", "fail"}
          /\ workflow[i].status = "completed"
          /\ workflow[i].ended_at = Some(MaxTime)
          /\ workflow[i].started_at = 1

\* C12: getSteps returns exactly the persisted steps of the workflow, in
\* non-decreasing created_at order, and steps of equal created_at in the
\* order in which their rows were inserted.
RowOf(id) == CHOOSE k \in DOMAIN workflow_step : workflow_step[k].id = id

AddStepsCalled ==
    /\ Len(microtasks') = Len(microtasks) + 1
    /\ microtasks'[Len(microtasks')].op = "insertSteps"
    /\ microtasks'[Len(microtasks')].kont = "addSteps"

C13_Step ==
    (AddStepsCalled \/ lastResult'.op = "addSteps")
        => UNCHANGED <<pendingSteps, batchInsertTimer>>

C13_EveryGiven ==
    \A id \in (1..stepCount) \ Ids(accepted) :
        \/ id \in Ids(workflow_step) \cup lost
        \/ Cardinality({k \in DOMAIN Inserts : id \in Ids(Inserts[k].arg)}) = 1

C13_Resolved ==
    lastResult.op = "addSteps" =>
        LET given == lastResult.arg
            n == Len(workflow_step)
        IN IF lastResult.failed
           THEN Range(given) \cap Ids(workflow_step) = {} /\ Range(given) \subseteq lost
           ELSE /\ Len(given) <= n
                /\ SubSeq(IdSeq(workflow_step), n - Len(given) + 1, n) = given

C13_ReadBack ==
    (lastResult.op = "selectSteps" /\ ~lastResult.failed)
        => lastResult.snap.persisted \subseteq Ids(lastResult.value)

AttachResolves == lastResult'.op = "attachIdentifier" /\ ~lastResult'.failed

AttachLooksUp ==
    /\ dbQueue # <<>>
    /\ Head(dbQueue).op = "selectByIdentifier"
    /\ Head(dbQueue).kont = "attach"
    /\ microtasks = <<>>
    /\ calls' = calls
    /\ dbQueue' # dbQueue

C14_Step ==
    /\ AttachLooksUp =>
          LET r == Head(dbQueue)
              m == FirstByIdentifier(workflow, r.arg)
          IN /\ workflow' = workflow
             /\ IF m = None \/ Malformed(r.snap.new) \/ r.snap.new \in Range(m[1].identifiers)
                THEN /\ lastResult'.op = "attachIdentifier"
                     /\ lastResult'.value = FALSE
                     /\ dbQueue' = Tail(dbQueue)
                ELSE /\ lastResult' = NoResult
                     /\ Len(dbQueue') = Len(dbQueue)
                     /\ dbQueue'[Len(dbQueue')].op = "updateIdentifiers"
                     /\ dbQueue'[Len(dbQueue')].arg.id = m[1].id
                     /\ dbQueue'[Len(dbQueue')].snap.read = m[1].identifiers
    /\ (AttachResolves /\ lastResult'.value = TRUE) =>
          LET r == Head(dbQueue)
              n == lastResult'.snap.new
          IN /\ r.op = "updateIdentifiers"
             /\ ~Malformed(n)
             /\ n \notin Range(r.snap.read)
             /\ lastResult'.arg \in Range(r.snap.read)
             /\ \A k \in DOMAIN workflow' :
                   /\ workflow'[k].id = r.arg.id
                         => workflow'[k].identifiers = Append(r.snap.read, n)
                   /\ workflow'[k].id # r.arg.id => workflow'[k] = workflow[k]
             /\ FirstByIdentifier(workflow', n) # None
             /\ (\A k \in DOMAIN workflow' :
                    HasPair(workflow'[k], n) => workflow'[k].id >= r.arg.id)
                   => FirstByIdentifier(workflow', n)[1].id = r.arg.id
    /\ (AttachResolves /\ lastResult'.value = FALSE) =>
          (AttachLooksUp /\ workflow' = workflow)

C15_DeletedStaysEmpty ==
    (lastResult.op = "selectSteps" /\ ~lastResult.failed /\ lastResult.snap.gone)
        => lastResult.value = <<>>

\* The store ends a request of deleteWorkflow: its select or its transaction.
DeleteWorkflowRuns ==
    /\ dbQueue # <<>>
    /\ Head(dbQueue).kont = "delete"
    /\ microtasks = <<>>
    /\ calls' = calls
    /\ dbQueue' # dbQueue

OtherWorkflows(rows, id) == SelectSeq(rows, LAMBDA w : w.id # id)
OtherSteps(rows, id) == SelectSeq(rows, LAMBDA s : s.workflow_id # id)

\* C16: deleteWorkflow(id) leaves every other workflow untouched: across
\* each step of the call, successful or failed, the rows of the workflows
\* other than id, the persisted steps whose workflow_id is not id, and the
\* buffered steps are the same after as before.
C16_Step ==
    DeleteWorkflowRuns =>
        LET id == Head(dbQueue).arg
        IN /\ OtherWorkflows(workflow', id) = OtherWorkflows(workflow, id)
           /\ OtherSteps(workflow_step', id) = OtherSteps(workflow_step, id)
           /\ pendingSteps' = pendingSteps
           /\ batchInsertTimer' = batchInsertTimer

C16_DeleteLeavesOthers == [][C16_Step]_vars

\* C16 witness: deleteWorkflow has returned true while another workflow has
\* its row and a persisted step, and a step is buffered.
C16_Witness ==
    /\ lastResult.op = "deleteWorkflow"
    /\ lastResult.value = TRUE
    /\ \E k \in DOMAIN workflow : workflow[k].id # lastResult.arg
    /\ \E k \in DOMAIN workflow_step : workflow_step[k].workflow_id # lastResult.arg
    /\ pendingSteps # <<>>
    /\ \A k \in DOMAIN workflow : workflow[k].id # lastResult.arg

CountOf(queue, op) == Len(SelectSeq(queue, LAMBDA r : r.op = op))

\* C17: deleteWorkflow returns true only if its lookup found a row of that
\* id, and false otherwise, also when the lookup or the transaction fails.
\* When it returns true no row of id and no persisted step of id is left;
\* when it returns false (no row, or a failed transaction) both tables are
\* as they were: the transaction removes all of it or nothing.
C17_Step ==
    /\ CountOf(dbQueue', "deleteTransaction") > CountOf(dbQueue, "deleteTransaction") =>
          /\ DeleteWorkflowRuns
          /\ Head(dbQueue).op = "selectWorkflow"
          /\ FirstById(workflow, Head(dbQueue).arg) # None
          /\ dbQueue'[Len(dbQueue')].arg = Head(dbQueue).arg
          /\ lastResult' = NoResult
          /\ workflow' = workflow /\ workflow_step' = workflow_step
    /\ (DeleteWorkflowRuns /\ Head(dbQueue).op = "selectWorkflow"
          /\ CountOf(dbQueue', "deleteTransaction") = CountOf(dbQueue, "deleteTransaction")) =>
          /\ lastResult'.op = "deleteWorkflow"
          /\ lastResult'.value = FALSE
          /\ lastResult'.failed \/ FirstById(workflow, Head(dbQueue).arg) = None
    /\ lastResult'.op = "deleteWorkflow" =>
          /\ DeleteWorkflowRuns
          /\ lastResult'.arg = Head(dbQueue).arg
          /\ lastResult'.value \in BOOLEAN
          /\ lastResult'.value = TRUE =>
                /\ Head(dbQueue).op = "deleteTransaction"
                /\ ~lastResult'.failed
                /\ FirstById(workflow', lastResult'.arg) = None
                /\ StepsOf(workflow_step', lastResult'.arg) = <<>>
          /\ lastResult'.value = FALSE =>
                /\ workflow' = workflow
                /\ workflow_step' = workflow_step
          /\ lastResult'.failed => lastResult'.value = FALSE

C17_DeleteAllOrNothing == [][C17_Step]_vars

\* C17 witness: the transaction has failed: deleteWorkflow has returned false
\* and the row and a persisted step of the workflow are still there.
C17_Witness ==
    /\ lastResult.op = "deleteWorkflow"
    /\ lastResult.value = FALSE
    /\ lastResult.failed
    /\ FirstById(workflow, lastResult.arg) # None
    /\ StepsOf(workflow_step, lastResult.arg) # <<>>
    /\ faults = 1

DeleteAllRuns ==
    /\ dbQueue # <<>>
    /\ Head(dbQueue).op = "deleteAllTransaction"
    /\ microtasks = <<>>
    /\ calls' = calls
    /\ dbQueue' # dbQueue

\* C18: deleteAllWorkflows returns true unless its transaction fails, also
\* on an empty store; when it returns true the two tables are empty at the
\* commit, and when the transaction fails it returns false and no row of
\* either table has been removed.
C18_Step ==
    /\ DeleteAllRuns =>
          /\ lastResult'.op = "deleteAllWorkflows"
          /\ lastResult'.value = ~lastResult'.failed
          /\ (faults' = faults /\ ~Head(dbQueue).aborted) => lastResult'.value = TRUE
          /\ lastResult'.value = TRUE => (workflow' = <<>> /\ workflow_step' = <<>>)
          /\ lastResult'.value = FALSE =>
                (workflow' = workflow /\ workflow_step' = workflow_step)
    /\ lastResult'.op = "deleteAllWorkflows" => DeleteAllRuns

C18_DeleteAllOrNothing == [][C18_Step]_vars

\* C18 witness: deleteAllWorkflows has returned true after steps had been
\* persisted: every step accepted has reached the store, and both tables are
\* empty.
C18_Witness ==
    /\ lastResult.op = "deleteAllWorkflows"
    /\ lastResult.value = TRUE
    /\ accepted # <<>>
    /\ pendingSteps = <<>>
    /\ Inserts = <<>>
    /\ lost = {}
    /\ \A i \in DOMAIN submitted : submitted[i] = 1
    /\ workflow = <<>>
    /\ workflow_step = <<>>

\* The store ends the oldest request with an error: the pool is closed, the
\* query is malformed, or the connection fails.
StoreRaises ==
    /\ dbQueue # <<>>
    /\ microtasks = <<>>
    /\ calls' = calls
    /\ dbQueue' # dbQueue
    /\ \/ faults' # faults
       \/ Head(dbQueue).aborted
       \/ Head(dbQueue).op = "selectWorkflows" /\ Head(dbQueue).arg.orderBy \notin Columns

Resolved(op, value) == lastResult'.op = op /\ lastResult'.value = value

\* C19: when the store raises an error, the operation resolves to exactly
\* its fallback and goes no further: getWorkflows to {workflows: [], total: 0,
\* page: 1, pageSize: 10, totalPages: 0} whatever was asked for; getSteps,
\* getStepsByIdentifier, getMostFrequentSteps and getAverageStepDuration to
\* the empty sequence; getWorkflowStats to all zeros; attachIdentifier,
\* deleteWorkflow and deleteAllWorkflows to false.
C19_Step ==
    StoreRaises =>
        LET r == Head(dbQueue)
        IN /\ r.kont = "getWorkflows" =>
                 Resolved("getWorkflows", [workflows |-> <<>>, total |-> 0, page |-> 1,
                                           pageSize |-> 10, totalPages |-> 0])
           /\ r.op = "selectSteps" => Resolved("selectSteps", <<>>)
           /\ r.op = "selectStepsByIdentifier" => Resolved("getStepsByIdentifier", <<>>)
           /\ r.op = "selectFrequentSteps" => Resolved("getMostFrequentSteps", <<>>)
           /\ r.kont = "averageDuration" => Resolved("getAverageStepDuration", <<>>)
           /\ r.kont = "stats" =>
                 Resolved("getWorkflowStats",
                          [total |-> 0, completed |-> 0, pending |-> 0, avgSteps |-> 0])
           /\ r.kont = "attach" => Resolved("attachIdentifier", FALSE)
           /\ r.kont = "delete" => Resolved("deleteWorkflow", FALSE)
           /\ r.kont = "deleteAll" => Resolved("deleteAllWorkflows", FALSE)
           /\ r.kont \in {"getWorkflows", "return", "averageDuration", "stats", "attach",
                          "delete", "deleteAll"} =>
                 /\ lastResult'.failed
                 /\ dbQueue' = Tail(dbQueue)
                 /\ workflow' = workflow
                 /\ workflow_step' = workflow_step

C19_FallbackOnError == [][C19_Step]_vars

\* C19 witness: getWorkflows was asked for page 2 of pages of 2, ordered by
\* a column that does not exist, of a store that holds a workflow and is
\* otherwise sound; it has resolved to the fallback.
C19_Witness ==
    /\ lastResult.op = "getWorkflows"
    /\ lastResult.failed
    /\ lastResult.arg.page = 2
    /\ lastResult.arg.pageSize = 2
    /\ lastResult.arg.orderBy = "invalid_column"
    /\ lastResult.value.page = 1
    /\ lastResult.value.pageSize = 10
    /\ workflow # <<>>
    /\ dbOpen
    /\ faults = 0

\* The workflows getWorkflows returns for page i, asked as the last call was,
\* of the table as it stands.
PageAt(i) ==
    Page(workflow, [lastResult.arg EXCEPT !.page = i], Len(workflow)).workflows

\* C20: pagination partitions the result.  For N stored workflows and page
\* size p, without a filter and without a write between the queries,
\* getWorkflows reports total = N and totalPages = ceil(N / p) (0 when
\* N = 0), returns the page asked for, page i for 1 <= i <= totalPages holds
\* min(p, N - (i-1)p) workflows, the pages are pairwise disjoint and their
\* union is all N workflows.
C20_PagesPartition ==
    (/\ lastResult.op = "getWorkflows"
     /\ ~lastResult.failed
     /\ lastResult.snap.seen = workflow) =>
        LET N == Len(workflow)
            p == lastResult.arg.pageSize
            v == lastResult.value
            pages == 1..v.totalPages
        IN /\ v.total = N
           /\ v.totalPages = (IF N = 0 THEN 0 ELSE ((N - 1) \div p) + 1)
           /\ N = 0 \/ (v.totalPages * p >= N /\ (v.totalPages - 1) * p < N)
           /\ v.page = lastResult.arg.page /\ v.pageSize = p
           /\ v.workflows = PageAt(v.page)
           /\ v.page > v.totalPages => v.workflows = <<>>
           /\ \A i \in pages : Len(PageAt(i)) = Min(p, N - (i - 1) * p)
           /\ \A i \in pages : Cardinality(Ids(PageAt(i))) = Len(PageAt(i))
           /\ \A i, j \in pages : i # j => Ids(PageAt(i)) \cap Ids(PageAt(j)) = {}
           /\ UNION {Ids(PageAt(i)) : i \in pages} = Ids(workflow)
           /\ Cardinality(Ids(workflow)) = N

\* C20 witness: the second and last page of three workflows in pages of two
\* has come back holding one workflow.
C20_Witness ==
    /\ lastResult.op = "getWorkflows"
    /\ ~lastResult.failed
    /\ lastResult.snap.seen = workflow
    /\ Len(workflow) = 3
    /\ lastResult.arg.pageSize = 2
    /\ lastResult.arg.page = 2
    /\ lastResult.value.totalPages = 2
    /\ Len(lastResult.value.workflows) = 1
    /\ \E k \in DOMAIN workflow : workflow[k].ended_at # None

\* C21 as stated: the total and the page of one getWorkflows call agree: the
\* page holds no more workflows than total, and total is the number of
\* workflows matching the filter in the table the page was read from, also
\* when a write reaches the store while getWorkflows is running.
C21_TotalMatchesPage ==
    (lastResult.op = "getWorkflows" /\ ~lastResult.failed) =>
        /\ Len(lastResult.value.workflows) <= lastResult.value.total
        /\ lastResult.value.total = Len(Filtered(workflow, lastResult.arg))

\* C21: a result whose page holds a workflow while its total is 0.
C21_Witness ==
    /\ lastResult.op = "getWorkflows"
    /\ ~lastResult.failed
    /\ lastResult.value.total = 0
    /\ Len(lastResult.value.workflows) = 1
    /\ lastResult.value.totalPages = 0

\* The rows of the table that satisfy every filter the last call gave.
Matching ==
    {k \in DOMAIN workflow :
        /\ lastResult.arg.status # None => workflow[k].status = lastResult.arg.status[1]
        /\ lastResult.arg.identifier # None =>
              \E i \in DOMAIN workflow[k].identifiers :
                  workflow[k].identifiers[i] = lastResult.arg.identifier[1]}

\* C22: getWorkflows with a status filter and/or an identifier filter
\* returns, and counts in total, exactly the workflows that satisfy every
\* given filter: status equal to the given one and identifier list
\* containing the given pair (the table not written between its queries,
\* the page large enough to hold them).
C22_FiltersExact ==
    (/\ lastResult.op = "getWorkflows"
     /\ ~lastResult.failed
     /\ lastResult.snap.seen = workflow) =>
        /\ Range(lastResult.value.workflows) = {workflow[k] : k \in Matching}
        /\ Len(lastResult.value.workflows) = Cardinality(Matching)
        /\ lastResult.value.total = Cardinality(Matching)

\* C22 witness: with both filters given, of two workflows of the status
\* asked for the one carrying the pair has been returned; another listing,
\* by the status alone, would hold both.
C22_Witness ==
    /\ lastResult.op = "getWorkflows"
    /\ ~lastResult.failed
    /\ lastResult.snap.seen = workflow
    /\ lastResult.arg.status = Some("completed")
    /\ lastResult.arg.identifier # None
    /\ Len(workflow) = 2
    /\ \A k \in DOMAIN workflow : workflow[k].status = "completed"
    /\ lastResult.value.total = 1
    /\ Len(lastResult.value.workflows) = 1

\* The rows of the table with at least one persisted step of that name.
HavingStep(step) ==
    {k \in DOMAIN workflow :
        \E i \in DOMAIN workflow_step :
            workflow_step[i].workflow_id = workflow[k].id /\ workflow_step[i].step = step}

\* C23 as stated: getWorkflows with a step filter returns, and counts in
\* total, only the workflows that have at least one persisted step with that
\* step name.
C23_StepFilter ==
    (/\ lastResult.op = "getWorkflows"
     /\ ~lastResult.failed
     /\ lastResult.snap.seen = workflow
     /\ lastResult.snap.given.step # None) =>
        /\ Range(lastResult.value.workflows) =
              {workflow[k] : k \in HavingStep(lastResult.snap.given.step[1])}
        /\ lastResult.value.total = Cardinality(HavingStep(lastResult.snap.given.step[1]))

\* C23: asked for the workflows with a step "b", getWorkflows has returned
\* two workflows of which none has a step "b" and one has no step at all.
C23_Witness ==
    /\ lastResult.op = "getWorkflows"
    /\ ~lastResult.failed
    /\ lastResult.snap.given.step = Some("b")
    /\ lastResult.value.total = 2
    /\ Len(lastResult.value.workflows) = 2
    /\ pendingSteps = <<>>
    /\ Len(workflow_step) = 1
    /\ workflow_step[1].step = "a"

\* The number of rows of that status in the table the counts were taken of.
SeenWith(status) ==
    Cardinality({k \in DOMAIN lastResult.snap.seen : lastResult.snap.seen[k].status = status})

\* C24: getWorkflowStats returns total = number of workflow rows, completed =
\* number of rows with status completed and pending = number with status
\* pending (of the table as its first query found it), so completed +
\* pending <= total and total - completed - pending is the number of failed
\* workflows.
C24_StatsCounts ==
    (lastResult.op = "getWorkflowStats" /\ ~lastResult.failed) =>
        LET v == lastResult.value
        IN /\ v.total = Len(lastResult.snap.seen)
           /\ v.completed = SeenWith("completed")
           /\ v.pending = SeenWith("pending")
           /\ v.completed + v.pending <= v.total
           /\ v.total - v.completed - v.pending = SeenWith("failed")

\* C24 witness: statistics over three workflows, one pending, one completed
\* and one failed.
C24_Witness ==
    /\ lastResult.op = "getWorkflowStats"
    /\ ~lastResult.failed
    /\ lastResult.value.total = 3
    /\ lastResult.value.completed = 1
    /\ lastResult.value.pending = 1
    /\ SeenWith("failed") = 1

\* r is q / d in hundredths, rounded to the nearest, halves up.
RoundsTo(r, q, d) == 2 * d * r <= 200 * q + d /\ 200 * q + d < 2 * d * (r + 1)

Named(step) == Cardinality({i \in DOMAIN workflow_step : workflow_step[i].step = step})

\* The step names that have persisted steps.
NamesPersisted == {workflow_step[i].step : i \in DOMAIN workflow_step}

\* C26: getMostFrequentSteps(limit) returns the first `limit` entries of the
\* ranking of step names by number of persisted steps with that name, in
\* descending order of count, each entry carrying that count; for a zero or
\* negative limit it returns the empty sequence.
C26_FrequentSteps ==
    (lastResult.op = "getMostFrequentSteps" /\ ~lastResult.failed) =>
        LET v == lastResult.value
            limit == lastResult.arg
        IN /\ Len(v) = (IF limit <= 0 THEN 0 ELSE Min(limit, Cardinality(NamesPersisted)))
           /\ \A i \in DOMAIN v : v[i].step \in NamesPersisted /\ v[i].count = Named(v[i].step)
           /\ \A i, j \in DOMAIN v : i < j => v[i].step # v[j].step /\ v[i].count >= v[j].count
           /\ \A n \in NamesPersisted :
                 (\A i \in DOMAIN v : v[i].step # n) =>
                     \A i \in DOMAIN v : v[i].count >= Named(n)

\* C26 witness: getMostFrequentSteps(-1) has answered over persisted steps of
\* two names.
C26_Witness ==
    /\ lastResult.op = "getMostFrequentSteps"
    /\ ~lastResult.failed
    /\ lastResult.arg = -1
    /\ Named("a") = 2
    /\ Named("b") = 1

\* The workflow rows that carry the pair.
Carrying(pair) == {workflow[k].id : k \in {i \in DOMAIN workflow : HasPair(workflow[i], pair)}}

\* The steps in the table whose workflow has a row that carries the pair.
StepsCarrying(pair) ==
    {workflow_step[i].id :
        i \in {j \in DOMAIN workflow_step : workflow_step[j].workflow_id \in Carrying(pair)}}

Invocations == SubSeq(invoked', Len(invoked) + 1, Len(invoked'))

\* Each of the events, in turn, is given to each of the handlers, in turn,
\* and nothing else is invoked.
Dispatched(events, handlers) ==
    /\ Len(Invocations) = Len(events) * Len(handlers)
    /\ \A k \in DOMAIN events, i \in DOMAIN handlers :
          Invocations[(k - 1) * Len(handlers) + i] = [handler |-> handlers[i], event |-> events[k]]

\* The store ends, without an error, the update of a status call.
StatusChanged ==
    /\ dbQueue # <<>>
    /\ dbQueue' = Tail(dbQueue)
    /\ Head(dbQueue).op = "updateStatus"
    /\ ~Head(dbQueue).aborted
    /\ faults' = faults

\* The rows an addSteps insert has added: new rows that were never buffered.
RowsAdded == SubSeq(workflow_step', Len(workflow_step) + 1, Len(workflow_step'))

\* C28: at each event (a workflow row inserted, a step accepted by addStep or
\* inserted by addSteps, the update of completeWorkflow or failWorkflow gone
\* through) the handlers registered for its class by then are each invoked
\* once per registration with that event, in registration order, and no
\* other handler is invoked; no step invokes a handler otherwise, and no
\* invocation is ever taken back.
C28_Step ==
    /\ SubSeq(invoked', 1, Len(invoked)) = invoked
    /\ UNCHANGED handlerLists \/ Invocations = <<>>
    /\ IF Len(workflow') = Len(workflow) + 1
       THEN LET row == workflow'[Len(workflow')]
            IN Dispatched(<<[class |-> "start", workflowId |-> row.id, of |-> None,
                             at |-> row.started_at]>>, startHandlers)
       ELSE IF Len(accepted') = Len(accepted) + 1
       THEN LET rec == accepted'[Len(accepted')]
            IN Dispatched(<<[class |-> "step", workflowId |-> rec.workflow_id,
                             of |-> Some(rec.id), at |-> rec.created_at]>>, stepHandlers)
       ELSE IF RowsAdded # <<>> /\ Ids(RowsAdded) \cap Ids(accepted) = {}
       THEN Dispatched([k \in DOMAIN RowsAdded |->
                           [class |-> "step", workflowId |-> RowsAdded[k].workflow_id,
                            of |-> Some(RowsAdded[k].id), at |-> RowsAdded[k].created_at]],
                       stepHandlers)
       ELSE IF StatusChanged
       THEN LET r == Head(dbQueue)
            IN Dispatched(<<[class |-> r.kont, workflowId |-> r.arg.id, of |-> None,
                             at |-> r.arg.ended_at]>>,
                          IF r.kont = "complete" THEN completeHandlers ELSE failHandlers)
       ELSE Invocations = <<>>

C29_Step ==
    \A k \in DOMAIN Invocations :
        LET e == Invocations[k].event
        IN /\ e.class = "start" => \E i \in DOMAIN workflow' : workflow'[i].id = e.workflowId
           /\ e.class = "complete" =>
                 \E i \in DOMAIN workflow' :
                     workflow'[i].id = e.workflowId /\ workflow'[i].status = "completed"
           /\ e.class = "fail" =>
                 \E i \in DOMAIN workflow' :
                     workflow'[i].id = e.workflowId /\ workflow'[i].status = "failed"
           /\ e.class = "step" => e.of[1] \in Ids(workflow_step')

C29_HandlersAfterChange == [][C29_Step]_vars

\* C29 witness: the complete handler has been invoked for a workflow whose
\* insert the store refused: there is no row.
C29_Witness ==
    /\ workflow = <<>>
    /\ \E k \in DOMAIN invoked : invoked[k].event.class = "complete"

\* C30: the id of an instance never changes, and each method of an instance
\* is the method of Liteflow of the same purpose called with that id: a step
\* is one exactly if it is the other, so both leave the same state and the
\* same result behind, and the runs of the two are the same runs.
C30_Step ==
    /\ \A i \in DOMAIN handles : i \in DOMAIN handles' /\ Id(handles'[i]) = Id(handles[i])
    /\ \A instance \in Range(handles) :
          /\ \A step \in StepNames, t \in Times :
                InstanceAddStep(instance, step, t) <=> AddStep(instance.id, step, t)
          /\ \A steps \in StepLists, t \in Times :
                InstanceAddSteps(instance, steps, t) <=> AddSteps(instance.id, steps, t)
          /\ \A t \in Times :
                /\ InstanceComplete(instance, t) <=> CompleteWorkflow(instance.id, t)
                /\ InstanceFail(instance, t) <=> FailWorkflow(instance.id, t)
          /\ InstanceGetSteps(instance) <=> GetSteps(instance.id)
          /\ InstanceDelete(instance) <=> DeleteWorkflow(instance.id)

AddStepCalled == Len(accepted') = Len(accepted) + 1
AddStepRecord == accepted'[Len(accepted')]

\* C31 as stated: an addStep without a step name adds no record to the
\* buffer and nothing is persisted for it; an addStep with a step name for
\* an id that has no row is accepted into the buffer.
C31_Step ==
    AddStepCalled =>
        IF AddStepRecord.step = NullName
        THEN pendingSteps' = pendingSteps
        ELSE pendingSteps' = Append(pendingSteps, AddStepRecord)

C31_NamelessStepRefused ==
    /\ [][C31_Step]_vars
    /\ [](\A i \in DOMAIN workflow_step : workflow_step[i].step # NullName)

\* C31 witness: a step without a name was buffered, and the batch insert
\* that carried it was refused as a whole: a named step of the same batch is
\* lost with it.
C31_Witness ==
    /\ pendingSteps = <<>>
    /\ \E j, k \in DOMAIN accepted :
          /\ accepted[j].step = NullName
          /\ accepted[k].step = "a"
          /\ {accepted[j].id, accepted[k].id} \subseteq lost

\* The step is a call of flushBatchInserts that finds the buffer empty: the
\* only call that has resolved when it returns.
FlushOfEmptyBuffer ==
    /\ calls' = calls + 1
    /\ pendingSteps = <<>>
    /\ lastResult'.op = "flush"

\* C32: flushBatchInserts called while the buffer is empty issues no request
\* to the store, leaves the buffer empty and the tables as they are, and
\* resolves.
C32_Step ==
    FlushOfEmptyBuffer =>
        /\ UNCHANGED <<microtasks, dbQueue, workflow, workflow_step, pendingSteps>>
        /\ lastResult'.value = "resolved"
        /\ ~lastResult'.failed

C32_EmptyFlushWritesNothing == [][C32_Step]_vars

\* C32 witness: flushBatchInserts has been called on an empty buffer, after
\* a step was persisted, and has resolved at once.
C32_Witness ==
    /\ lastResult.op = "flush"
    /\ lastResult.arg = None
    /\ workflow_step # <<>>
    /\ pendingSteps = <<>>
    /\ microtasks = <<>>
    /\ dbQueue = <<>>

\* The step is a call of flushBatchInserts by the application.
FlushCalled ==
    /\ calls' = calls + 1
    /\ \/ lastResult'.op = "flush"
       \/ /\ Len(microtasks') = Len(microtasks) + 1
          /\ microtasks'[Len(microtasks')].op = "insertSteps"
          /\ microtasks'[Len(microtasks')].kont = "flush"

\* The step is the firing of a timeout.
TimeoutFired == calls' = calls /\ Len(timeouts') < Len(timeouts)

\* C33: at most one timeout is waiting at any time, and it is the one
\* batchInsertTimer holds; an addStep made while it waits leaves it as it
\* is; the timeout that fires was set by the first step of the batch it
\* flushes, and it has cleared batchInsertTimer when the batch is handed
\* over; a call of flushBatchInserts cancels it.
C33_OneTimer ==
    timeouts = IF batchInsertTimer = None THEN <<>> ELSE <<batchInsertTimer>>

C33_Step ==
    /\ (AddStepCalled /\ batchInsertTimer # None) => UNCHANGED <<batchInsertTimer, timeouts>>
    /\ TimeoutFired =>
          /\ pendingSteps # <<>>
          /\ Head(timeouts) = Some(pendingSteps[1].created_at)
          /\ batchInsertTimer' = None
          /\ timeouts' = <<>>
          /\ Len(Inserts') = Len(Inserts) + 1
          /\ Inserts'[Len(Inserts')].arg = pendingSteps
    /\ FlushCalled => (batchInsertTimer' = None /\ timeouts' = <<>>)

C33_TimerArmedOnce == []C33_OneTimer /\ [][C33_Step]_vars

\* C33 witness: the timer set by a first step is still the one armed after a
\* second step was added at a later time.
C33_Witness ==
    /\ Len(pendingSteps) = 2
    /\ pendingSteps[1].created_at < pendingSteps[2].created_at
    /\ batchInsertTimer = Some(pendingSteps[1].created_at)
    /\ timeouts = <<batchInsertTimer>>

\* C34: the created_at of a step added by addStep is the time of the call
\* and stays what it was, in the buffer and in the table, whenever the step
\* is flushed; so getSteps returns a step accepted earlier before the steps
\* of a later addSteps call, also when its row was inserted after theirs.
C34_Stamped ==
    /\ \A k \in DOMAIN pendingSteps : pendingSteps[k] \in Range(accepted)
    /\ \A i \in DOMAIN workflow_step :
          workflow_step[i].id \in Ids(accepted) => workflow_step[i] \in Range(accepted)
    /\ lastResult.op = "selectSteps" =>
          \A i, j \in DOMAIN lastResult.value :
              lastResult.value[i].created_at < lastResult.value[j].created_at => i < j

C34_Step == AddStepCalled => (AddStepRecord.created_at = now' /\ accepted' = Append(accepted, AddStepRecord))

C34_CreatedAtIsCallTime == []C34_Stamped /\ [][C34_Step]_vars

\* C34 witness: getSteps returns a step added by addStep before a step of a
\* later addSteps call whose row was inserted first.
C34_Witness ==
    /\ lastResult.op = "selectSteps"
    /\ \E i, j \in DOMAIN lastResult.value :
          /\ i < j
          /\ lastResult.value[i].id \in Ids(accepted)
          /\ lastResult.value[j].id \notin Ids(accepted)
          /\ lastResult.value[i].created_at < lastResult.value[j].created_at
          /\ RowOf(lastResult.value[i].id) > RowOf(lastResult.value[j].id)

\* C35: attachIdentifier never makes a workflow carry the same (key, value)
\* pair twice: every workflow is started with a list free of duplicates, and
\* no row's list ever holds a pair at two positions, also after two
\* overlapping calls have attached the same new pair to the same workflow.
NoDuplicatePair(identifiers) ==
    \A j, k \in DOMAIN identifiers : identifiers[j] = identifiers[k] => j = k

C35_NoPairTwice ==
    /\ \A h \in DOMAIN handles : NoDuplicatePair(handles[h].identifiers)
    /\ \A i \in DOMAIN workflow : NoDuplicatePair(workflow[i].identifiers)

\* C35 witness: a call has returned true for a new pair while the update of
\* an overlapping call with the same new pair for the same workflow is next
\* on the connection; the row carries the pair already.
C35_Witness ==
    /\ lastResult.op = "attachIdentifier"
    /\ lastResult.value = TRUE
    /\ dbQueue # <<>>
    /\ Head(dbQueue).op = "updateIdentifiers"
    /\ Head(dbQueue).snap.new = lastResult.snap.new
    /\ \E i \in DOMAIN workflow :
          /\ workflow[i].id = Head(dbQueue).arg.id
          /\ lastResult.snap.new \in Range(workflow[i].identifiers)
          /\ lastResult.snap.new \notin Range(Head(dbQueue).snap.read)

\* C36 as stated: every attachIdentifier call that returned true has its
\* identifier in the workflow's list afterwards: the call that returns true
\* leaves its pair resolving to the workflow, and no step takes a pair away
\* from a workflow row, also when two calls attaching different pairs to the
\* same workflow overlap (no update is lost).
PairsKept ==
    \A i \in DOMAIN workflow :
        /\ i \in DOMAIN workflow'
        /\ workflow'[i].id = workflow[i].id
        /\ Range(workflow[i].identifiers) \subseteq Range(workflow'[i].identifiers)

C36_Step ==
    /\ PairsKept
    /\ (AttachResolves /\ lastResult'.value = TRUE) =>
          /\ FirstByIdentifier(workflow', lastResult'.snap.new) # None
          /\ FirstByIdentifier(workflow', lastResult'.arg) # None
          /\ FirstByIdentifier(workflow', lastResult'.snap.new)[1].id
                = FirstByIdentifier(workflow', lastResult'.arg)[1].id

C36_NoUpdateLost == [][C36_Step]_vars

\* C36 witness: one call has returned true and its pair is in the row; the
\* update of an overlapping call, next on the connection, writes a list read
\* before that pair was attached.
C36_Witness ==
    /\ lastResult.op = "attachIdentifier"
    /\ lastResult.value = TRUE
    /\ dbQueue # <<>>
    /\ Head(dbQueue).op = "updateIdentifiers"
    /\ Head(dbQueue).snap.new # lastResult.snap.new
    /\ lastResult.snap.new \notin Range(Head(dbQueue).arg.identifiers)
    /\ \E i \in DOMAIN workflow :
          /\ workflow[i].id = Head(dbQueue).arg.id
          /\ lastResult.snap.new \in Range(workflow[i].identifiers)

\* C37: between two synchronous blocks (every state of the model is one), a
\* non-empty pending buffer implies that a flush timer is armed: the timer
\* field is set and its timeout is waiting to fire, so no accepted step
\* stays in the buffer without a flush scheduled for it.
C37_BufferedImpliesArmed ==
    pendingSteps # <<>> =>
        /\ batchInsertTimer # None
        /\ batchInsertTimer \in Range(timeouts)

\* C37 witness: a step is buffered with the timer armed after an earlier
\* batch has been flushed and stored, the timer having been cleared then.
C37_Witness ==
    /\ pendingSteps # <<>>
    /\ workflow_step # <<>>
    /\ batchInsertTimer # None
    /\ batchInsertTimer \in Range(timeouts)

\* C38: completeWorkflow(id) and failWorkflow(id) change only the status and
\* ended_at of the workflow row with that id.  The call itself writes nothing;
\* its update leaves the name, identifiers and started_at of the row, every
\* other workflow row, every persisted step, the pending buffer and the timer
\* as they are.  No step ever changes the started_at of a workflow row.
StatusCalled ==
    /\ calls' = calls + 1
    /\ Len(dbQueue') = Len(dbQueue) + 1
    /\ dbQueue'[Len(dbQueue')].op = "updateStatus"

BesideWorkflowKept ==
    /\ workflow_step' = workflow_step
    /\ pendingSteps' = pendingSteps
    /\ batchInsertTimer' = batchInsertTimer
    /\ timeouts' = timeouts

C38_Step ==
    /\ StatusCalled => (workflow' = workflow /\ BesideWorkflowKept)
    /\ StatusChanged =>
          /\ BesideWorkflowKept
          /\ DOMAIN workflow' = DOMAIN workflow
          /\ \A i \in DOMAIN workflow :
                IF workflow[i].id = Head(dbQueue).arg.id
                THEN /\ workflow'[i].id = workflow[i].id
                     /\ workflow'[i].name = workflow[i].name
                     /\ workflow'[i].identifiers = workflow[i].identifiers
                     /\ workflow'[i].started_at = workflow[i].started_at
                     /\ workflow'[i].status = Head(dbQueue).arg.status
                     /\ workflow'[i].ended_at = Head(dbQueue).arg.ended_at
                ELSE workflow'[i] = workflow[i]
    /\ \A i \in DOMAIN workflow, j \in DOMAIN workflow' :
          workflow'[j].id = workflow[i].id
              => workflow'[j].started_at = workflow[i].started_at

C38_StatusUpdateFrame == [][C38_Step]_vars

\* C38 witness: a workflow started before the clock advanced has been ended
\* at the later time next to a pending workflow, a persisted step, a
\* buffered step and an armed timer.
C38_Witness ==
    /\ \E i, j \in DOMAIN workflow :
          /\ workflow[i].status \in {"completed", "failed"}
          /\ workflow[i].ended_at # None
          /\ workflow[i].ended_at # Some(workflow[i].started_at)
          /\ workflow[j].status = "pending"
    /\ workflow_step # <<>>
    /\ pendingSteps # <<>>
    /\ batchInsertTimer # None

\* C39: in every store state a workflow row has status pending if and only
\* if its ended_at is unset: a row enters the table pending with no ended_at,
\* and every update that goes through leaves the rows of its id completed or
\* failed with ended_at set.
C39_Rows ==
    \A i \in DOMAIN workflow :
        IF workflow[i].ended_at = None
        THEN workflow[i].status = "pending"
        ELSE workflow[i].status \in {"completed", "failed"}

C39_Step ==
    /\ \A k \in DOMAIN workflow' :
          (\A i \in DOMAIN workflow : workflow[i].id # workflow'[k].id)
              => (workflow'[k].status = "pending" /\ workflow'[k].ended_at = None)
    /\ StatusChanged =>
          \A k \in DOMAIN workflow' :
              workflow'[k].id = Head(dbQueue).arg.id
                  => /\ workflow'[k].status \in {"completed", "failed"}
                     /\ workflow'[k].ended_at # None

C39_PendingIffOpen == []C39_Rows /\ [][C39_Step]_vars

\* C39 witness: a pending row without ended_at stands next to a row that
\* was completed and then failed, which carries the later ended_at.
C39_Witness ==
    \E i, j \in DOMAIN workflow :
        /\ workflow[i].status = "pending"
        /\ workflow[i].ended_at = None
        /\ workflow[j].status = "failed"
        /\ workflow[j].ended_at # None
        /\ "complete" \in called[workflow[j].id]
        /\ "early" \notin called[workflow[j].id]
        /\ dbQueue = <<>>

\* The steps of C40.  startWorkflow returns: the handle is new.
StartReturned == Len(handles') = Len(handles) + 1

\* The store refuses the insert of a workflow.
InsertRefused ==
    /\ dbQueue # <<>>
    /\ Head(dbQueue).op = "insertWorkflow"
    /\ dbQueue' = Tail(dbQueue)
    /\ faults' = faults + 1

\* The store answers the select of getSteps, or of deleteWorkflow, for a
\* handle whose insert was refused.
AnswersFor(op) ==
    /\ dbQueue # <<>>
    /\ Head(dbQueue).op = op
    /\ microtasks = <<>>
    /\ dbQueue' # dbQueue
    /\ calls' = calls
    /\ Gone(Head(dbQueue).arg)

TablesKept == workflow' = workflow /\ workflow_step' = workflow_step

\* What C40 says of every step but the answer to getSteps.
C40_Handle ==
    /\ StartReturned =>
          LET h == handles'[Len(handles')]
          IN /\ h.id \notin HandleIds
             /\ h.id \notin Ids(workflow)
             /\ \A k \in DOMAIN workflow_step : workflow_step[k].workflow_id # h.id
             /\ TablesKept
             /\ dbQueue' # <<>>
             /\ dbQueue'[Len(dbQueue')].op = "insertWorkflow"
             /\ dbQueue'[Len(dbQueue')].arg.id = h.id
    /\ InsertRefused =>
          /\ TablesKept
          /\ invoked' = invoked
          /\ lastResult' = NoResult
    /\ \A w \in HandleIds :
          Gone(w) => /\ \A k \in DOMAIN workflow' : workflow'[k].id # w
                     /\ \A k \in DOMAIN invoked' :
                           invoked'[k].event.class = "start"
                               => invoked'[k].event.workflowId # w
    /\ (StatusChanged /\ Gone(Head(dbQueue).arg.id)) => TablesKept
    /\ AnswersFor("selectWorkflow") =>
          /\ TablesKept
          /\ dbQueue' = Tail(dbQueue)
          /\ lastResult'.op = "deleteWorkflow"
          /\ lastResult'.value = FALSE
          /\ ~lastResult'.failed

\* C40 as stated: startWorkflow returns a handle with a fresh id before the
\* insert has reached the store; if the insert fails, no workflow row with the
\* id ever exists, no start handler is invoked for it, no error reaches the
\* caller, and later completeWorkflow, getSteps and deleteWorkflow on the
\* handle change no row and return their not-found or fallback results:
\* getSteps the empty sequence, deleteWorkflow false.
C40_RefusedInsert ==
    [][/\ C40_Handle
       /\ AnswersFor("selectSteps") =>
             /\ TablesKept
             /\ lastResult'.op = "selectSteps"
             /\ lastResult'.value = <<>>]_vars

\* C40 amended: as stated, except that getSteps on such a handle returns the
\* steps added through the handle that have been persisted, each once, and
\* the empty sequence only when there are none; deleteWorkflow returns false
\* and leaves those steps in the table.
C40_RefusedInsertKeepsSteps ==
    [][/\ C40_Handle
       /\ AnswersFor("selectSteps") =>
             LET w == Head(dbQueue).arg
                 value == lastResult'.value
             IN /\ TablesKept
                /\ lastResult'.op = "selectSteps"
                /\ ~lastResult'.failed
                /\ {value[k].id : k \in DOMAIN value}
                      = {workflow_step[k].id : k \in {j \in DOMAIN workflow_step :
                                                     workflow_step[j].workflow_id = w}}
                /\ \A j, k \in DOMAIN value : value[j].id = value[k].id => j = k
                /\ \A k \in DOMAIN value :
                      /\ value[k].workflow_id = w
                      /\ \E a \in DOMAIN accepted : accepted[a] = value[k]]_vars

\* C40 witness: of two workflows started with a start handler registered,
\* the insert of one was refused: its handle has no row and no invocation,
\* the other has both, and deleteWorkflow on the handle has returned false.
C40_Witness ==
    /\ lastResult.op = "deleteWorkflow"
    /\ lastResult.value = FALSE
    /\ Gone(lastResult.arg)
    /\ \E k \in DOMAIN workflow : workflow[k].id # lastResult.arg
    /\ \E k \in DOMAIN invoked : invoked[k].event.class = "start"
    /\ \A k \in DOMAIN invoked : invoked[k].event.workflowId # lastResult.arg

====
